---- MODULE Spec2Model ----
(***************************************************************************)
(* Model of the log aggregation service: labels primitive, chunk writer    *)
(* and reader, label index, ingest pipeline, query executor and live-tail  *)
(* hub.  Strings are sequences of one-character strings; a label map is a   *)
(* function from keys (strings) to values (strings).  Instants are counted *)
(* in ticks, TicksPerSecond ticks to the second, so that time.Time.Unix()  *)
(* is a real truncation.                                                   *)
(***************************************************************************)
EXTENDS Integers, Sequences, FiniteSets, TLC

\* ------------------------------------------------------------------------
\* Bounds of the model
\* ------------------------------------------------------------------------
MaxTick == 1

MaxFaults == 1

MaxAccepted == 3

MaxPublished == 2

\* the clock of the retention sweeps stops here
MaxSweepTick == 2

\* ------------------------------------------------------------------------
\* Scaled program constants
\* ------------------------------------------------------------------------
TicksPerSecond == 2

\* the retention period (retention_days), in ticks
RetentionTicks == 1

BufSize == 2

BroadcastCap == 2

\* the longest line the scanner of the reader accepts (1024*1024 bytes)
MaxScanTokenSize == 2

\* how often the index is persisted and loaded back
MaxLoads == 1

MaxKeyLen == 128

MaxValueLen == 2048

\* ------------------------------------------------------------------------
\* Strings
\* ------------------------------------------------------------------------
NoStr == << >>

\* byte value of the characters the model uses (ASCII)
CharCode == [c \in {"\n", ",", "/", "1", "2", "3", "=", "_", "a", "b", "x", "y"} |->
               CASE c = "\n" -> 10 [] c = "," -> 44 [] c = "/" -> 47
                 [] c = "1" -> 49 [] c = "2" -> 50 [] c = "3" -> 51
                 [] c = "=" -> 61 [] c = "_" -> 95 [] c = "a" -> 97
                 [] c = "b" -> 98 [] c = "x" -> 120 [] c = "y" -> 121]

IsLetter(c) == CharCode[c] >= 97 /\ CharCode[c] <= 122

IsDigit(c) == CharCode[c] >= 48 /\ CharCode[c] <= 57

\* Go string comparison s < t: bytewise lexicographic
RECURSIVE StrLess(_, _)
StrLess(s, t) ==
    IF t = NoStr THEN FALSE
    ELSE IF s = NoStr THEN TRUE
    ELSE IF CharCode[Head(s)] # CharCode[Head(t)] THEN CharCode[Head(s)] < CharCode[Head(t)]
    ELSE StrLess(Tail(s), Tail(t))

\* strings.Contains(s, sub)
Contains(s, sub) ==
    \E i \in 0..(Len(s) - Len(sub)) : SubSeq(s, i + 1, i + Len(sub)) = sub

\* sort.Strings over the key set of a map
RECURSIVE SortStrings(_)
SortStrings(S) ==
    IF S = {} THEN << >>
    ELSE LET m == CHOOSE x \in S : \A y \in S \ {x} : StrLess(x, y)
         IN <<m>> \o SortStrings(S \ {m})

\* ------------------------------------------------------------------------
\* models.Labels
\* ------------------------------------------------------------------------
NoLabels == << >>

\* Go map read l[k]: the zero value "" for an absent key
MapGet(l, k) == IF k \in DOMAIN l THEN l[k] ELSE NoStr

RECURSIVE HashInput(_, _)
HashInput(l, keys) ==
    IF keys = << >> THEN NoStr
    ELSE Head(keys) \o <<"=">> \o l[Head(keys)] \o <<",">> \o HashInput(l, Tail(keys))

\* Labels.Hash: the digest of the serialized pairs; sha256 truncated to 8
\* bytes is taken as collision-free, so the digest is identified with its input
Hash(l) == HashInput(l, SortStrings(DOMAIN l))

RECURSIVE JoinParts(_, _)
JoinParts(parts, sep) ==
    IF parts = << >> THEN NoStr
    ELSE IF Len(parts) = 1 THEN Head(parts)
    ELSE Head(parts) \o sep \o JoinParts(Tail(parts), sep)

\* Labels.ToPath
ToPath(l) ==
    LET keys == SortStrings(DOMAIN l)
        parts == [i \in 1..Len(keys) |-> keys[i] \o <<"=">> \o l[keys[i]]]
    IN JoinParts(parts, <<"_">>)

\* a Match under which the empty query matches no label set
LabelsMatch_EmptyMatchesNone(l, query) ==
    DOMAIN query # {} /\ \A k \in DOMAIN query : MapGet(l, k) = query[k]

\* Labels.Match
LabelsMatch(l, query) == \A k \in DOMAIN query : MapGet(l, k) = query[k]

\* ------------------------------------------------------------------------
\* ingest validation
\* ------------------------------------------------------------------------
validateLabelKey(key) ==
    /\ Len(key) # 0 /\ Len(key) <= MaxKeyLen
    /\ (IsLetter(key[1]) \/ key[1] = "_")
    /\ \A i \in 2..Len(key) : IsLetter(key[i]) \/ IsDigit(key[i]) \/ key[i] = "_"

validateLabelValue(value) ==
    /\ Len(value) # 0 /\ Len(value) <= MaxValueLen
    /\ ~Contains(value, <<"\n">>)

\* ValidateStream: TRUE iff the stream passes (the Go function returns nil)
ValidateStream(stream) ==
    /\ stream.labels # NoLabels
    /\ Len(stream.entries) # 0
    /\ \A key \in DOMAIN stream.labels :
          validateLabelKey(key) /\ validateLabelValue(stream.labels[key])

\* ------------------------------------------------------------------------
\* State
\* ------------------------------------------------------------------------
VARIABLES
    now,            \* wall clock (time.Now), in ticks
    buffers,        \* Ingestor.buffers: label hash -> logBuffer
    bufferMu,       \* Ingestor.bufferMu: the holder, or NoOwner
    ingestedLines,  \* Ingestor.ingestedLines
    ingestedBytes,  \* Ingestor.ingestedBytes
    stopChan,       \* Ingestor.stopChan: TRUE once closed
    pc,             \* position of every goroutine
    loc,            \* locals of every goroutine
    chunkSeq,       \* Writer.chunkSeq
    disk,           \* files under the base path: <<dir, chunk id, ext>> -> content
    modTime,        \* modification time of every file under the base path, in ticks
    dirs,           \* the directories below the base path, each as its path elements
    labelIndex,     \* Index.labelIndex: label hash -> chunk ids
    chunkMeta,      \* Index.chunkMeta: chunk id -> ChunkMeta
    labelKeys,      \* Index.labelKeys
    labelValues,    \* Index.labelValues: key -> values
    broadcast,      \* StreamHub.broadcast: the bounded channel
    clients,        \* StreamHub.clients: conn -> filter labels
    hubMu,          \* StreamHub.mu: "free", "hub" (read-locked by Run) or a conn (write-locked)
    hub,            \* position and locals of StreamHub.Run
    conn,           \* per connection: transport state, handler position, frames written
    found,          \* result of the last Index.FindChunks call
    result,         \* result of the last Executor.Execute call
    call,           \* the last call of a function of the labels or parser package
    hist            \* history: what was accepted, enqueued, flushed, lost

ingestVars == <<buffers, bufferMu, ingestedLines, ingestedBytes, stopChan, pc, loc>>

storeVars == <<chunkSeq, disk, modTime, dirs, labelIndex, chunkMeta, labelKeys, labelValues>>

hubVars == <<clients, hubMu, hub, conn>>

queryVars == <<found, result, call>>

vars == <<now, ingestVars, storeVars, broadcast, hubVars, queryVars, hist>>

\* ------------------------------------------------------------------------
\* Time
\* ------------------------------------------------------------------------
Times == 0..3

\* time.Time.Unix(): whole seconds
Unix(t) == t \div TicksPerSecond

\* an entry timestamp string that is not RFC 3339
BadTs == -1

\* time.Parse(time.RFC3339, ts) with the fallback to time.Now()
ParseTs(ts) == IF ts = BadTs THEN now ELSE ts

\* ------------------------------------------------------------------------
\* Label sets, lines and requests the model ingests
\* ------------------------------------------------------------------------
KeyA == <<"a">>

KeyB == <<"b">>

LA == (KeyA :> <<"1">>) @@ (KeyB :> <<"2">>)

LB == (KeyA :> <<"1", ",", "b", "=", "2">>)

LC == (KeyA :> <<"3">>)

LBadKey == (<<"1", "a">> :> <<"1">>)

LBadValue == (KeyA :> <<"1", "\n">>)

\* a value with a path separator
LD == (KeyA :> <<"1", "/", "2">>)

LabelSets == {LA, LB, LC, LD}

LineX == <<"x">>

LineYY == <<"y", "y">>

\* a line longer than the scanner of the reader accepts
LineLong == [i \in 1..(MaxScanTokenSize + 1) |-> "x"]

Lines == {LineX, LineYY, LineLong}

In(ts, line) == [ts |-> ts, line |-> line]

St(labels, entries) == [labels |-> labels, entries |-> entries]

Requests ==
    << << St(LA, <<In(3, LineX), In(0, LineYY)>>) >>,
       << St(NoLabels, <<In(1, LineX)>>), St(LB, <<In(BadTs, LineLong)>>) >>,
       << St(LC, <<In(2, LineX), In(2, LineX), In(1, LineYY)>>) >>,
       << St(LA, <<In(1, LineX)>>), St(LA, << >>), St(LBadKey, <<In(1, LineX)>>),
          St(LBadValue, <<In(1, LineX)>>), St(LD, <<In(2, LineX)>>) >> >>

\* ValidateIngestRequest: TRUE iff the request passes
ValidateIngestRequest(req) ==
    /\ Len(req) # 0
    /\ \A i \in 1..Len(req) : ValidateStream(req[i])

\* The body of a POST /ingest, as the sequence of its top-level pieces: a JSON
\* object with the streams of a request, a JSON number, or bytes that are no JSON
JsonObject(req) == [kind |-> "object", streams |-> req]

JsonNumber == [kind |-> "number", streams |-> << >>]

NotJson == [kind |-> "garbage", streams |-> << >>]

NoBody == <<[kind |-> "none", streams |-> << >>]>>

Bodies ==
    { << >>, <<NotJson>>, <<JsonNumber>>, <<JsonObject(<< >>)>>,
      <<JsonObject(<<St(LC, <<In(2, LineX)>>)>>)>>,
      <<JsonObject(Requests[2])>>, <<JsonObject(Requests[3])>>,
      <<JsonObject(Requests[3]), NotJson>> }

\* the whole body is one JSON value
ValidJSON(body) == Len(body) = 1 /\ body[1].kind \in {"object", "number"}

\* json.NewDecoder(r.Body).Decode(&req): reads the next JSON value of the body
\* and nothing after it; fails at the end of input, on bytes that are no JSON
\* and on a value that is no object
Decode(body) ==
    IF body = << >> \/ body[1].kind # "object"
    THEN [err |-> TRUE, req |-> << >>]
    ELSE [err |-> FALSE, req |-> body[1].streams]

StatusBadRequest == 400

StatusOK == 200

RECURSIVE ValidEntryCount(_)
ValidEntryCount(req) ==
    IF req = << >> THEN 0
    ELSE (IF ValidateStream(Head(req)) THEN Len(Head(req).entries) ELSE 0)
         + ValidEntryCount(Tail(req))

\* ------------------------------------------------------------------------
\* Goroutines
\* ------------------------------------------------------------------------
IngestProcs == {"i1", "i2"}

FlushProcs == {"timer", "stop"}

Procs == IngestProcs \cup FlushProcs

NoOwner == "none"

NoHash == <<"-">>

\* ------------------------------------------------------------------------
\* storage.Writer
\* ------------------------------------------------------------------------
WriteFaults == {"none", "mkdir", "create", "flush", "meta"}

MetaOf(chunkID, labels, startTime, endTime, count) ==
    [ID |-> chunkID, Labels |-> labels, StartTime |-> Unix(startTime),
     EndTime |-> Unix(endTime), EntryCount |-> count]

\* startTime of WriteChunk: the timestamp of the first entry of the batch
StartTimeOf(entries) == entries[1].Timestamp

\* endTime of WriteChunk: the timestamp of the last entry of the batch
EndTimeOf(entries) == entries[Len(entries)].Timestamp

\* json.Marshal of a LogEntry: the object with the names of the json tags (the
\* timestamp is written with nanoseconds, so the instant is kept)
Marshal(entry) ==
    [id |-> entry.ID, timestamp |-> entry.Timestamp, message |-> entry.Line,
     labels |-> entry.Labels, n |-> entry.n]

\* the lines WriteChunk writes for a batch
MarshalAll(entries) == [i \in 1..Len(entries) |-> Marshal(entries[i])]

\* the elements of a slash-separated path as filepath.Join leaves them (empty
\* elements are dropped)
RECURSIVE PathElements(_, _)
PathElements(path, cur) ==
    IF path = << >> THEN (IF cur = << >> THEN << >> ELSE <<cur>>)
    ELSE IF Head(path) = "/"
         THEN (IF cur = << >> THEN << >> ELSE <<cur>>) \o PathElements(Tail(path), << >>)
         ELSE PathElements(Tail(path), Append(cur, Head(path)))

\* the directory WriteChunk puts the files of a stream into
ChunkDir(labels) == PathElements(ToPath(labels), << >>)

\* os.MkdirAll: the directory and all its parents exist afterwards
MkdirAll(dir) == dirs \cup {SubSeq(dir, 1, n) : n \in 1..Len(dir)}

\* a WriteChunk that advances the sequence only when the chunk was written
WriteChunk_SeqOnSuccess(labels, entries, fault, written) ==
    LET seq == IF fault = "none" THEN chunkSeq + 1 ELSE chunkSeq
        chunkID == <<Unix(now), seq>>
        dir == ToPath(labels)
        logPath == <<dir, chunkID, "log">>
        metaPath == <<dir, chunkID, "meta">>
        startTime == StartTimeOf(entries)
        endTime == EndTimeOf(entries)
        meta == MetaOf(chunkID, labels, startTime, endTime, Len(entries))
    IN [err |-> fault # "none",
        seq |-> seq,
        chunkID |-> chunkID,
        startTime |-> startTime,
        endTime |-> endTime,
        disk |-> CASE fault \in {"mkdir", "create"} -> disk
                   [] fault = "flush" ->
                        (logPath :> MarshalAll(SubSeq(entries, 1, written))) @@ disk
                   [] fault = "meta" -> (logPath :> MarshalAll(entries)) @@ disk
                   [] OTHER -> (logPath :> MarshalAll(entries)) @@ (metaPath :> meta) @@ disk,
        modTime |-> CASE fault \in {"mkdir", "create"} -> modTime
                      [] fault \in {"flush", "meta"} -> (logPath :> now) @@ modTime
                      [] OTHER -> (logPath :> now) @@ (metaPath :> now) @@ modTime,
        dirs |-> IF fault = "mkdir" THEN dirs ELSE MkdirAll(ChunkDir(labels))]

\* Writer.WriteChunk as a function of the I/O fault it meets; written is the
\* number of lines that reached the file when the flush of the bufio writer fails
WriteChunk(labels, entries, fault, written) ==
    LET seq == chunkSeq + 1
        chunkID == <<Unix(now), seq>>
        dir == ToPath(labels)
        logPath == <<dir, chunkID, "log">>
        metaPath == <<dir, chunkID, "meta">>
        startTime == StartTimeOf(entries)
        endTime == EndTimeOf(entries)
        meta == MetaOf(chunkID, labels, startTime, endTime, Len(entries))
    IN [err |-> fault # "none",
        seq |-> seq,
        chunkID |-> chunkID,
        startTime |-> startTime,
        endTime |-> endTime,
        disk |-> CASE fault \in {"mkdir", "create"} -> disk
                   [] fault = "flush" ->
                        (logPath :> MarshalAll(SubSeq(entries, 1, written))) @@ disk
                   [] fault = "meta" -> (logPath :> MarshalAll(entries)) @@ disk
                   [] OTHER -> (logPath :> MarshalAll(entries)) @@ (metaPath :> meta) @@ disk,
        modTime |-> CASE fault \in {"mkdir", "create"} -> modTime
                      [] fault \in {"flush", "meta"} -> (logPath :> now) @@ modTime
                      [] OTHER -> (logPath :> now) @@ (metaPath :> now) @@ modTime,
        dirs |-> IF fault = "mkdir" THEN dirs ELSE MkdirAll(ChunkDir(labels))]

\* ------------------------------------------------------------------------
\* index.Index
\* ------------------------------------------------------------------------
\* Index.AddChunk
AddChunk(chunkID, labels, startTime, endTime, entryCount) ==
    LET hash == Hash(labels)
        old == IF hash \in DOMAIN labelIndex THEN labelIndex[hash] ELSE << >>
    IN /\ labelIndex' = (hash :> Append(old, chunkID)) @@ labelIndex
       /\ chunkMeta' = (chunkID :> MetaOf(chunkID, labels, startTime, endTime, entryCount))
                         @@ chunkMeta
       /\ labelKeys' = labelKeys \cup DOMAIN labels
       /\ labelValues' = [k \in DOMAIN labelValues \cup DOMAIN labels |->
                            (IF k \in DOMAIN labelValues THEN labelValues[k] ELSE {})
                            \cup (IF k \in DOMAIN labels THEN {labels[k]} ELSE {})]

\* Index.FindChunks
FindChunks(query, startTime, endTime) ==
    {id \in DOMAIN chunkMeta :
        /\ ~(chunkMeta[id].EndTime < Unix(startTime) \/ chunkMeta[id].StartTime > Unix(endTime))
        /\ LabelsMatch(chunkMeta[id].Labels, query)}

\* Index.GetChunkMeta
GetChunkMeta(chunkID) == chunkMeta[chunkID]

\* Index.GetAllLabels: the label keys, in the order of a map iteration
GetAllLabels == labelKeys

\* Index.GetLabelValues
GetLabelValues(labelKey) ==
    IF labelKey \in DOMAIN labelValues THEN labelValues[labelKey] ELSE {}

\* Index.Stats
Stats == [chunkCount |-> Cardinality(DOMAIN chunkMeta), labelCount |-> Cardinality(labelKeys)]

\* Index.PersistIndex: the buckets written to the database, the chunk metadata
\* as JSON objects under the chunk ids and the values of every label key as a
\* JSON array in the order of a map iteration
PersistIndex ==
    [chunks |-> [id \in DOMAIN chunkMeta |->
                    [id |-> chunkMeta[id].ID, labels |-> chunkMeta[id].Labels,
                     start_time |-> chunkMeta[id].StartTime,
                     end_time |-> chunkMeta[id].EndTime,
                     entry_count |-> chunkMeta[id].EntryCount]],
     labels |-> [key \in DOMAIN labelValues |->
                    CHOOSE vlist \in [1..Cardinality(labelValues[key]) -> labelValues[key]] :
                        {vlist[i] : i \in DOMAIN vlist} = labelValues[key]]]

\* LoadIndex: a new index filled from the two buckets of the database
LoadIndex(db) ==
    [labelIndex |-> << >>,
     chunkMeta |-> [k \in DOMAIN db.chunks |->
                      [ID |-> db.chunks[k].id, Labels |-> db.chunks[k].labels,
                       StartTime |-> db.chunks[k].start_time,
                       EndTime |-> db.chunks[k].end_time,
                       EntryCount |-> db.chunks[k].entry_count]],
     labelKeys |-> {},
     labelValues |-> [k \in DOMAIN db.labels |->
                        {db.labels[k][i] : i \in DOMAIN db.labels[k]}]]

\* append(chunks[:i], chunks[i+1:]...) for the first i with chunks[i] = chunkID
RECURSIVE RemoveFirst(_, _)
RemoveFirst(chunks, chunkID) ==
    IF chunks = << >> THEN << >>
    ELSE IF Head(chunks) = chunkID THEN Tail(chunks)
    ELSE <<Head(chunks)>> \o RemoveFirst(Tail(chunks), chunkID)

\* Index.RemoveChunk
RemoveChunk(chunkID) ==
    IF chunkID \notin DOMAIN chunkMeta
    THEN UNCHANGED <<labelIndex, chunkMeta, labelKeys, labelValues>>
    ELSE LET hash == Hash(chunkMeta[chunkID].Labels)
         IN /\ labelIndex' = [labelIndex EXCEPT ![hash] = RemoveFirst(@, chunkID)]
            /\ chunkMeta' = [id \in DOMAIN chunkMeta \ {chunkID} |-> chunkMeta[id]]
            /\ UNCHANGED <<labelKeys, labelValues>>

\* ------------------------------------------------------------------------
\* api.StreamHub: the non-blocking publish
\* ------------------------------------------------------------------------
Broadcast_EvictOldest(queue, entry) ==
    IF Len(queue) < BroadcastCap THEN Append(queue, entry) ELSE Append(Tail(queue), entry)

\* StreamHub.Broadcast: the channel after the select with a default branch
Broadcast(queue, entry) ==
    IF Len(queue) < BroadcastCap THEN Append(queue, entry) ELSE queue

\* ------------------------------------------------------------------------
\* ingest.Ingestor
\* ------------------------------------------------------------------------
NewBuffer(labels) == [labels |-> labels, entries |-> << >>, size |-> 0]

NoResult == [err |-> FALSE, seq |-> 0, chunkID |-> <<0, 0>>, startTime |-> 0, endTime |-> 0]

IdleLoc == [req |-> << >>, si |-> 1, ei |-> 1, accepted |-> 0,
            cur |-> NoHash, todo |-> {}, wres |-> NoResult]

CurStream(p) == loc[p].req[loc[p].si]

\* generateLogID: the formatted clock reading
generateLogID == now

Lock_NoExclusion(p) == bufferMu' = p

\* bufferMu.Lock()
Lock(p) == bufferMu = NoOwner /\ bufferMu' = p

\* Ingest is called with a request
IngestCall(p) ==
    /\ p \in IngestProcs /\ pc[p] = "idle"
    /\ pc["stop"] # "done"
    /\ \E r \in 1..Len(Requests) :
          /\ hist.reserved + ValidEntryCount(Requests[r]) <= MaxAccepted
          /\ loc' = [loc EXCEPT ![p] = [IdleLoc EXCEPT !.req = Requests[r]]]
          /\ hist' = [hist EXCEPT !.reserved = @ + ValidEntryCount(Requests[r])]
    /\ pc' = [pc EXCEPT ![p] = "stream"]
    /\ UNCHANGED <<now, buffers, bufferMu, ingestedLines, ingestedBytes, stopChan,
                   storeVars, broadcast, hubVars, queryVars>>

IngestSkipStream_AbortsRequest(p) ==
    /\ p \in IngestProcs /\ pc[p] = "stream"
    /\ loc[p].si <= Len(loc[p].req)
    /\ ~ValidateStream(CurStream(p))
    /\ loc' = [loc EXCEPT ![p].si = Len(loc[p].req) + 1]
    /\ UNCHANGED <<now, buffers, bufferMu, ingestedLines, ingestedBytes, stopChan, pc,
                   storeVars, broadcast, hubVars, queryVars, hist>>

\* IngestHandler.Ingest: a POST /ingest arrives; 400 when the body does not
\* decode or the request fails validation, else Ingestor.Ingest is called
HandlerIngest(p) ==
    /\ p \in IngestProcs /\ pc[p] = "idle"
    /\ pc["stop"] # "done"
    /\ \E body \in Bodies :
          IF Decode(body).err \/ ~ValidateIngestRequest(Decode(body).req)
          THEN /\ hist' = [hist EXCEPT !.body[p] = body, !.status[p] = StatusBadRequest]
               /\ UNCHANGED <<loc, pc>>
          ELSE /\ hist.reserved + ValidEntryCount(Decode(body).req) <= MaxAccepted
               /\ loc' = [loc EXCEPT ![p] = [IdleLoc EXCEPT !.req = Decode(body).req]]
               /\ hist' = [hist EXCEPT !.body[p] = body, !.status[p] = 0,
                                       !.reserved = @ + ValidEntryCount(Decode(body).req)]
               /\ pc' = [pc EXCEPT ![p] = "stream"]
    /\ UNCHANGED <<now, buffers, bufferMu, ingestedLines, ingestedBytes, stopChan,
                   storeVars, broadcast, hubVars, queryVars>>

\* IngestHandler.Ingest: Ingestor.Ingest has returned, the count of accepted
\* entries is written with status 200
HandlerRespond(p) ==
    /\ p \in IngestProcs /\ pc[p] = "stream"
    /\ loc[p].si > Len(loc[p].req)
    /\ loc' = [loc EXCEPT ![p] = IdleLoc]
    /\ pc' = [pc EXCEPT ![p] = "idle"]
    /\ hist' = [hist EXCEPT !.status[p] = StatusOK]
    /\ UNCHANGED <<now, buffers, bufferMu, ingestedLines, ingestedBytes, stopChan,
                   storeVars, broadcast, hubVars, queryVars>>

\* the stream fails ValidateStream: logged and skipped
IngestSkipStream(p) ==
    /\ p \in IngestProcs /\ pc[p] = "stream"
    /\ loc[p].si <= Len(loc[p].req)
    /\ ~ValidateStream(CurStream(p))
    /\ loc' = [loc EXCEPT ![p].si = @ + 1]
    /\ UNCHANGED <<now, buffers, bufferMu, ingestedLines, ingestedBytes, stopChan, pc,
                   storeVars, broadcast, hubVars, queryVars, hist>>

\* a valid stream: take the mutex, locate or create the buffer of its hash
IngestLockStream(p) ==
    /\ p \in IngestProcs /\ pc[p] = "stream"
    /\ loc[p].si <= Len(loc[p].req)
    /\ ValidateStream(CurStream(p))
    /\ Lock(p)
    /\ LET labelHash == Hash(CurStream(p).labels)
       IN /\ buffers' = IF labelHash \in DOMAIN buffers THEN buffers
                        ELSE (labelHash :> NewBuffer(CurStream(p).labels)) @@ buffers
          /\ loc' = [loc EXCEPT ![p].cur = labelHash, ![p].ei = 1]
    /\ pc' = [pc EXCEPT ![p] = "entry"]
    /\ UNCHANGED <<now, ingestedLines, ingestedBytes, stopChan,
                   storeVars, broadcast, hubVars, queryVars, hist>>

\* one iteration of the loop over stream.Entries
IngestEntry(p) ==
    /\ p \in IngestProcs /\ pc[p] = "entry"
    /\ loc[p].ei <= Len(CurStream(p).entries)
    /\ LET in == CurStream(p).entries[loc[p].ei]
           logEntry == [ID |-> generateLogID, Timestamp |-> ParseTs(in.ts),
                        Line |-> in.line, Labels |-> CurStream(p).labels,
                        n |-> ingestedLines + 1]
       IN /\ buffers' = [buffers EXCEPT ![loc[p].cur].entries = Append(@, logEntry),
                                        ![loc[p].cur].size = @ + Len(in.line)]
          /\ broadcast' = Broadcast(broadcast, logEntry)
          /\ ingestedLines' = ingestedLines + 1
          /\ ingestedBytes' = ingestedBytes + Len(in.line)
          /\ hist' = [hist EXCEPT !.accepted = @ \cup {logEntry}]
    /\ loc' = [loc EXCEPT ![p].ei = @ + 1, ![p].accepted = @ + 1]
    /\ UNCHANGED <<now, bufferMu, stopChan, pc, storeVars, hubVars, queryVars>>

\* after the loop: the buffer is below bufSize, unlock and go to the next stream
IngestNoFlush(p) ==
    /\ p \in IngestProcs /\ pc[p] = "entry"
    /\ loc[p].ei > Len(CurStream(p).entries)
    /\ Len(buffers[loc[p].cur].entries) < BufSize
    /\ bufferMu' = NoOwner
    /\ loc' = [loc EXCEPT ![p].si = @ + 1, ![p].cur = NoHash]
    /\ pc' = [pc EXCEPT ![p] = "stream"]
    /\ UNCHANGED <<now, buffers, ingestedLines, ingestedBytes, stopChan,
                   storeVars, broadcast, hubVars, queryVars, hist>>

\* after the loop: the buffer is full, flushBuffer is entered
IngestFlush(p) ==
    /\ p \in IngestProcs /\ pc[p] = "entry"
    /\ loc[p].ei > Len(CurStream(p).entries)
    /\ Len(buffers[loc[p].cur].entries) >= BufSize
    /\ pc' = [pc EXCEPT ![p] = "write"]
    /\ UNCHANGED <<now, buffers, bufferMu, ingestedLines, ingestedBytes, stopChan, loc,
                   storeVars, broadcast, hubVars, queryVars, hist>>

\* flushBuffer: the call of Writer.WriteChunk, with any I/O outcome
FlushBufferWrite(p) ==
    /\ pc[p] = "write"
    /\ LET buf == buffers[loc[p].cur]
       IN \E fault \in WriteFaults, written \in 0..(Len(buf.entries) - 1) :
             /\ (fault # "flush" => written = 0)
             /\ (fault # "none" => hist.failed < MaxFaults)
             /\ \E r \in {WriteChunk(buf.labels, buf.entries, fault, written)} :
                   /\ chunkSeq' = r.seq
                   /\ disk' = r.disk
                   /\ modTime' = r.modTime
                   /\ dirs' = r.dirs
                   /\ loc' = [loc EXCEPT ![p].wres = [err |-> r.err, seq |-> r.seq,
                                  chunkID |-> r.chunkID, startTime |-> r.startTime,
                                  endTime |-> r.endTime]]
                   /\ hist' = [hist EXCEPT !.ids = Append(@, r.chunkID)]
    /\ pc' = [pc EXCEPT ![p] = "index"]
    /\ UNCHANGED <<now, buffers, bufferMu, ingestedLines, ingestedBytes, stopChan,
                   labelIndex, chunkMeta, labelKeys, labelValues,
                   broadcast, hubVars, queryVars>>

\* a flushBuffer that registers the chunk whatever WriteChunk returned
FlushBufferIndex_IgnoresError(p) ==
    LET buf == buffers[loc[p].cur]
        r == loc[p].wres
    IN /\ AddChunk(r.chunkID, buf.labels, r.startTime, r.endTime, Len(buf.entries))
       /\ hist' = [hist EXCEPT
                     !.lost = IF r.err THEN @ \cup {buf.entries[i] : i \in 1..Len(buf.entries)}
                              ELSE @,
                     !.failed = IF r.err THEN @ + 1 ELSE @,
                     !.flushed = IF r.err THEN @ ELSE @ \cup {r.chunkID},
                     !.batch = IF r.err THEN @ ELSE (r.chunkID :> buf.entries) @@ @]

\* flushBuffer after WriteChunk: Index.AddChunk on success, only a log line on error
FlushBufferIndex(p) ==
    LET buf == buffers[loc[p].cur]
        r == loc[p].wres
    IN /\ IF r.err
          THEN UNCHANGED <<labelIndex, chunkMeta, labelKeys, labelValues>>
          ELSE AddChunk(r.chunkID, buf.labels, r.startTime, r.endTime, Len(buf.entries))
       /\ hist' = [hist EXCEPT
                     !.lost = IF r.err THEN @ \cup {buf.entries[i] : i \in 1..Len(buf.entries)}
                              ELSE @,
                     !.failed = IF r.err THEN @ + 1 ELSE @,
                     !.flushed = IF r.err THEN @ ELSE @ \cup {r.chunkID},
                     !.batch = IF r.err THEN @ ELSE (r.chunkID :> buf.entries) @@ @]

\* size-triggered flush in Ingest: flushBuffer returns, the buffer is replaced
IngestFlushDone(p) ==
    /\ p \in IngestProcs /\ pc[p] = "index"
    /\ FlushBufferIndex(p)
    /\ buffers' = [buffers EXCEPT ![loc[p].cur] = NewBuffer(CurStream(p).labels)]
    /\ bufferMu' = NoOwner
    /\ loc' = [loc EXCEPT ![p].si = @ + 1, ![p].cur = NoHash, ![p].wres = NoResult]
    /\ pc' = [pc EXCEPT ![p] = "stream"]
    /\ UNCHANGED <<now, ingestedLines, ingestedBytes, stopChan, chunkSeq, disk,
                   modTime, dirs,
                   broadcast, hubVars, queryVars>>

\* Ingest returns the number of accepted entries
IngestReturn(p) ==
    /\ p \in IngestProcs /\ pc[p] = "stream"
    /\ loc[p].si > Len(loc[p].req)
    /\ loc' = [loc EXCEPT ![p] = IdleLoc]
    /\ pc' = [pc EXCEPT ![p] = "idle"]
    /\ UNCHANGED <<now, buffers, bufferMu, ingestedLines, ingestedBytes, stopChan,
                   storeVars, broadcast, hubVars, queryVars, hist>>

\* flushWorker: the ticker fires, flushAll is called
TimerTick ==
    /\ pc["timer"] = "select"
    /\ pc' = [pc EXCEPT !["timer"] = "fa_lock"]
    /\ UNCHANGED <<now, buffers, bufferMu, ingestedLines, ingestedBytes, stopChan, loc,
                   storeVars, broadcast, hubVars, queryVars, hist>>

\* flushWorker: stopChan is closed, the worker returns (wg.Done)
TimerExit ==
    /\ pc["timer"] = "select"
    /\ stopChan
    /\ pc' = [pc EXCEPT !["timer"] = "done"]
    /\ UNCHANGED <<now, buffers, bufferMu, ingestedLines, ingestedBytes, stopChan, loc,
                   storeVars, broadcast, hubVars, queryVars, hist>>

\* Stop: close(stopChan)
StopClose ==
    /\ pc["stop"] = "idle"
    /\ stopChan' = TRUE
    /\ pc' = [pc EXCEPT !["stop"] = "wait"]
    /\ UNCHANGED <<now, buffers, bufferMu, ingestedLines, ingestedBytes, loc,
                   storeVars, broadcast, hubVars, queryVars, hist>>

\* Stop: wg.Wait() returns once the worker is gone, flushAll is called
StopWait ==
    /\ pc["stop"] = "wait"
    /\ pc["timer"] = "done"
    /\ pc' = [pc EXCEPT !["stop"] = "fa_lock"]
    /\ UNCHANGED <<now, buffers, bufferMu, ingestedLines, ingestedBytes, stopChan, loc,
                   storeVars, broadcast, hubVars, queryVars, hist>>

\* flushAll: take the mutex, start ranging over the buffers
FlushAllLock(p) ==
    /\ p \in FlushProcs /\ pc[p] = "fa_lock"
    /\ Lock(p)
    /\ loc' = [loc EXCEPT ![p].todo = DOMAIN buffers]
    /\ pc' = [pc EXCEPT ![p] = "fa_range"]
    /\ UNCHANGED <<now, buffers, ingestedLines, ingestedBytes, stopChan,
                   storeVars, broadcast, hubVars, queryVars, hist>>

\* a flushAll that leaves the buffers below the buffer size alone
FlushAllNext_OnlyFullBuffers(p) ==
    /\ p \in FlushProcs /\ pc[p] = "fa_range"
    /\ \E h \in loc[p].todo :
          IF Len(buffers[h].entries) >= BufSize
          THEN /\ loc' = [loc EXCEPT ![p].cur = h]
               /\ pc' = [pc EXCEPT ![p] = "write"]
          ELSE /\ loc' = [loc EXCEPT ![p].todo = @ \ {h}]
               /\ pc' = pc
    /\ UNCHANGED <<now, buffers, bufferMu, ingestedLines, ingestedBytes, stopChan,
                   storeVars, broadcast, hubVars, queryVars, hist>>

\* flushAll: the next buffer of the range (map order is arbitrary)
FlushAllNext(p) ==
    /\ p \in FlushProcs /\ pc[p] = "fa_range"
    /\ \E h \in loc[p].todo :
          IF Len(buffers[h].entries) > 0
          THEN /\ loc' = [loc EXCEPT ![p].cur = h]
               /\ pc' = [pc EXCEPT ![p] = "write"]
          ELSE /\ loc' = [loc EXCEPT ![p].todo = @ \ {h}]
               /\ pc' = pc
    /\ UNCHANGED <<now, buffers, bufferMu, ingestedLines, ingestedBytes, stopChan,
                   storeVars, broadcast, hubVars, queryVars, hist>>

\* flushAll: flushBuffer returns, the buffer is truncated
FlushAllBufferDone(p) ==
    /\ p \in FlushProcs /\ pc[p] = "index"
    /\ FlushBufferIndex(p)
    /\ buffers' = [buffers EXCEPT ![loc[p].cur].entries = << >>, ![loc[p].cur].size = 0]
    /\ loc' = [loc EXCEPT ![p].todo = @ \ {loc[p].cur}, ![p].cur = NoHash,
                          ![p].wres = NoResult]
    /\ pc' = [pc EXCEPT ![p] = "fa_range"]
    /\ UNCHANGED <<now, bufferMu, ingestedLines, ingestedBytes, stopChan, chunkSeq, disk,
                   modTime, dirs,
                   broadcast, hubVars, queryVars>>

\* flushAll: the range is over, the deferred Unlock runs
FlushAllReturn(p) ==
    /\ p \in FlushProcs /\ pc[p] = "fa_range"
    /\ loc[p].todo = {}
    /\ bufferMu' = NoOwner
    /\ pc' = [pc EXCEPT ![p] = IF p = "timer" THEN "select" ELSE "done"]
    /\ UNCHANGED <<now, buffers, ingestedLines, ingestedBytes, stopChan, loc,
                   storeVars, broadcast, hubVars, queryVars, hist>>

\* the wall clock advances
ClockTick ==
    /\ now < MaxTick
    /\ now' = now + 1
    /\ UNCHANGED <<ingestVars, storeVars, broadcast, hubVars, queryVars, hist>>

\* ------------------------------------------------------------------------
\* storage: the retention worker, and calls of Index.RemoveChunk
\* ------------------------------------------------------------------------
\* the clock of the retention worker: time passes between two sweeps
SweepClockTick ==
    /\ now < MaxSweepTick
    /\ now' = now + 1
    /\ UNCHANGED <<ingestVars, storeVars, broadcast, hubVars, queryVars, hist>>

\* info.ModTime().Before(cutoff) for cutoff = time.Now().AddDate(0, 0, -retentionDays)
Expired(path) == modTime[path] < now - RetentionTicks

\* the directory a file lies in
DirOf(path) == PathElements(path[1], << >>)

\* os.ReadDir(dir) is not empty: a file or a directory lies in it
HasEntries(dir, files, ds) ==
    \/ \E path \in files : DirOf(path) = dir
    \/ \E d \in ds : Len(d) = Len(dir) + 1 /\ SubSeq(d, 1, Len(dir)) = dir

\* storage.cleanupEmptyDirs: filepath.Walk calls the function for a directory
\* before it descends into it, so a directory is tested while all the
\* directories in it still exist
cleanupEmptyDirs(files) == {d \in dirs : HasEntries(d, files, dirs)}

\* storage.CleanupOldChunks: the walk removes every file older than the cutoff,
\* then cleanupEmptyDirs runs
CleanupOldChunks ==
    /\ \/ \E path \in DOMAIN disk : Expired(path)
       \/ \E d \in dirs : ~HasEntries(d, DOMAIN disk, dirs)
    /\ disk' = [path \in {q \in DOMAIN disk : ~Expired(q)} |-> disk[path]]
    /\ modTime' = [path \in {q \in DOMAIN modTime : ~Expired(q)} |-> modTime[path]]
    /\ dirs' = cleanupEmptyDirs({q \in DOMAIN disk : ~Expired(q)})
    /\ hist' = [hist EXCEPT !.swept = @ \cup {path \in DOMAIN disk : Expired(path)}]
    /\ UNCHANGED <<now, ingestVars, chunkSeq, labelIndex, chunkMeta, labelKeys, labelValues,
                   broadcast, hubVars, queryVars>>

\* a chunk id that is not in the index
NoChunk == <<0, 0>>

\* a call of Index.RemoveChunk
RemoveChunkCall ==
    /\ \E chunkID \in DOMAIN chunkMeta \cup {NoChunk} :
          /\ RemoveChunk(chunkID)
          /\ hist' = [hist EXCEPT !.removed = @ \cup {chunkID}]
    /\ UNCHANGED <<now, ingestVars, chunkSeq, disk, modTime, dirs, broadcast, hubVars,
                   queryVars>>

\* ------------------------------------------------------------------------
\* api.StreamHub and api.StreamHandler
\* ------------------------------------------------------------------------
Conns == {"c1", "c2"}

FilterA1 == (KeyA :> <<"1">>)

FilterBEmpty == (KeyB :> NoStr)

Filters == {NoLabels, FilterA1, FilterBEmpty}

MaxFilterUpdates == 1

\* the subscriber whose peer may go away and may send filter messages
Unsteady == {"c1"}

\* the labels of the entries Publish sends, in turn
PublishLabels == <<LA, LC>>

NoConn == "nobody"

NoEntry == [ID |-> 0, Timestamp |-> 0, Line |-> NoStr, Labels |-> NoLabels, n |-> 0]

HubIdle == [pc |-> "select", entry |-> NoEntry, todo |-> {}, who |-> NoConn,
            filter |-> NoLabels]

NewConn == [hpc |-> "none", filter |-> NoLabels, broken |-> FALSE, closed |-> FALSE,
            frames |-> << >>]

\* matchesFilter
matchesFilter(logLabels, filterLabels) ==
    IF Cardinality(DOMAIN filterLabels) = 0 THEN TRUE
    ELSE \A k \in DOMAIN filterLabels : MapGet(logLabels, k) = filterLabels[k]

ChanRecv_Last(queue) == queue[Len(queue)]

\* receive from the buffered channel: the oldest element
ChanRecv(queue) == Head(queue)

ChanRest(queue) ==
    LET i == CHOOSE j \in 1..Len(queue) : queue[j] = ChanRecv(queue)
    IN SubSeq(queue, 1, i - 1) \o SubSeq(queue, i + 1, Len(queue))

\* conn.WriteMessage: the frame reaches the peer unless the transport is down
\* (a frame is recorded by its type and, for a log frame, the entry it carries)
WriteMessage(c, frame) ==
    IF conn[c].broken \/ conn[c].closed THEN conn
    ELSE [conn EXCEPT ![c].frames = Append(@, frame)]

WriteFails(c) == conn[c].broken \/ conn[c].closed

\* goroutines blocked in a send on the unbuffered h.unregister
UnregisterSenders ==
    {c \in Conns : conn[c].hpc = "unregister"}
      \cup (IF hub.pc = "unregister_send" THEN {"hub"} ELSE {})

\* HandleStream: the upgrade succeeds, the filter is read from the URL query,
\* the handler blocks in the send on h.hub.register
Connect(c) ==
    /\ conn[c].hpc = "none"
    /\ \E f \in Filters : conn' = [conn EXCEPT ![c].hpc = "register", ![c].filter = f]
    /\ UNCHANGED <<now, ingestVars, storeVars, broadcast, clients, hubMu, hub, queryVars, hist>>

\* Run, case reg := <-h.register
HubRecvRegister ==
    /\ hub.pc = "select"
    /\ \E c \in Conns :
          /\ conn[c].hpc = "register"
          /\ conn' = [conn EXCEPT ![c].hpc = "welcome"]
          /\ hub' = [hub EXCEPT !.pc = "register", !.who = c, !.filter = conn[c].filter]
    /\ UNCHANGED <<now, ingestVars, storeVars, broadcast, clients, hubMu, queryVars, hist>>

\* Run, register case: h.mu.Lock(); h.clients[reg.conn] = reg.filter; h.mu.Unlock()
HubStoreRegister ==
    /\ hub.pc = "register"
    /\ hubMu = "free"
    /\ clients' = (hub.who :> hub.filter) @@ clients
    /\ hub' = HubIdle
    /\ UNCHANGED <<now, ingestVars, storeVars, broadcast, hubMu, conn, queryVars, hist>>

\* Run, case conn := <-h.unregister: the rendezvous with one blocked sender
HubRecvUnregister ==
    /\ hub.pc = "select"
    /\ \E s \in UnregisterSenders :
          /\ hub' = [hub EXCEPT !.pc = "unregister", !.who = IF s \in Conns THEN s ELSE @]
          /\ conn' = [c \in Conns |-> IF c = s THEN [conn[c] EXCEPT !.hpc = "gone"] ELSE conn[c]]
    /\ UNCHANGED <<now, ingestVars, storeVars, broadcast, clients, hubMu, queryVars, hist>>

\* Run, unregister case: under h.mu, delete the client and close its connection
HubApplyUnregister ==
    /\ hub.pc = "unregister"
    /\ hubMu = "free"
    /\ IF hub.who \in DOMAIN clients
       THEN /\ clients' = [c \in DOMAIN clients \ {hub.who} |-> clients[c]]
            /\ conn' = [conn EXCEPT ![hub.who].closed = TRUE]
       ELSE UNCHANGED <<clients, conn>>
    /\ hub' = HubIdle
    /\ UNCHANGED <<now, ingestVars, storeVars, broadcast, hubMu, queryVars, hist>>

\* Run, case entry := <-h.broadcast, h.mu.RLock() and the start of the range
\* over h.clients
HubRecvBroadcast ==
    /\ hub.pc = "select"
    /\ broadcast # << >>
    /\ hubMu = "free"
    /\ hubMu' = "hub"
    /\ hub' = [hub EXCEPT !.pc = "range", !.entry = ChanRecv(broadcast),
                          !.todo = DOMAIN clients]
    /\ broadcast' = ChanRest(broadcast)
    /\ UNCHANGED <<now, ingestVars, storeVars, clients, conn, queryVars, hist>>

\* Run, broadcast case: one client of the range; on a write error the loop
\* sends the connection on h.unregister
HubDeliver ==
    /\ hub.pc = "range"
    /\ \E c \in hub.todo :
          IF matchesFilter(hub.entry.Labels, clients[c])
          THEN /\ conn' = WriteMessage(c, [type |-> "log", n |-> hub.entry.n])
               /\ hub' = [hub EXCEPT !.todo = @ \ {c},
                                     !.pc = IF WriteFails(c) THEN "unregister_send" ELSE @,
                                     !.who = IF WriteFails(c) THEN c ELSE @]
               /\ hist' = [hist EXCEPT !.writeFailed =
                                          IF WriteFails(c) THEN @ \cup {c} ELSE @]
          ELSE /\ conn' = conn
               /\ hub' = [hub EXCEPT !.todo = @ \ {c}]
               /\ hist' = hist
    /\ UNCHANGED <<now, ingestVars, storeVars, broadcast, clients, hubMu, queryVars>>

\* Run, broadcast case: the range is over, h.mu.RUnlock()
HubEndRange ==
    /\ hub.pc = "range"
    /\ hub.todo = {}
    /\ hubMu' = "free"
    /\ hub' = HubIdle
    /\ UNCHANGED <<now, ingestVars, storeVars, broadcast, clients, conn, queryVars, hist>>

\* HandleStream after the register send: the welcome frame, then the reader goroutine
HandlerWelcome(c) ==
    /\ conn[c].hpc = "welcome"
    /\ conn' = [WriteMessage(c, [type |-> "connected", n |-> 0])
                  EXCEPT ![c].hpc = "read", ![c].filter = NoLabels]
    /\ UNCHANGED <<now, ingestVars, storeVars, broadcast, clients, hubMu, hub, queryVars, hist>>

\* reader goroutine: a {type: "filter"} message, the new filter stored under h.hub.mu
ReaderFilter(c) ==
    /\ conn[c].hpc = "read"
    /\ ~conn[c].broken /\ ~conn[c].closed
    /\ c \in Unsteady
    /\ hist.updates < MaxFilterUpdates
    /\ hubMu = "free"
    /\ \E f \in Filters :
          /\ clients' = (c :> f) @@ clients
          /\ conn' = [conn EXCEPT ![c].hpc = "confirm", ![c].filter = f]
    /\ hist' = [hist EXCEPT !.updates = @ + 1]
    /\ UNCHANGED <<now, ingestVars, storeVars, broadcast, hubMu, hub, queryVars>>

\* reader goroutine: the filter_updated frame
ReaderConfirm(c) ==
    /\ conn[c].hpc = "confirm"
    /\ conn' = [WriteMessage(c, [type |-> "filter_updated", n |-> 0])
                  EXCEPT ![c].hpc = "read", ![c].filter = NoLabels]
    /\ hist' = [hist EXCEPT !.confirmed = (c :> conn[c].filter) @@ @]
    /\ UNCHANGED <<now, ingestVars, storeVars, broadcast, clients, hubMu, hub, queryVars>>

\* reader goroutine: ReadMessage fails, the loop ends and the deferred send on
\* h.hub.unregister blocks until Run receives it
ReaderError(c) ==
    /\ conn[c].hpc = "read"
    /\ conn[c].broken \/ conn[c].closed
    /\ conn' = [conn EXCEPT ![c].hpc = "unregister"]
    /\ UNCHANGED <<now, ingestVars, storeVars, broadcast, clients, hubMu, hub, queryVars, hist>>

\* the peer goes away: later reads and writes on the connection fail
ConnBreak(c) ==
    /\ conn[c].hpc # "none"
    /\ ~conn[c].broken
    /\ c \in Unsteady
    /\ conn' = [conn EXCEPT ![c].broken = TRUE]
    /\ UNCHANGED <<now, ingestVars, storeVars, broadcast, clients, hubMu, hub, queryVars, hist>>

\* Ingest publishes a new entry: ing.broadcaster.Broadcast(&logEntry)
Publish ==
    /\ hist.published < MaxPublished
    /\ \E l \in {PublishLabels[(hist.published % Len(PublishLabels)) + 1]} :
          LET logEntry == [ID |-> generateLogID, Timestamp |-> now, Line |-> LineX,
                           Labels |-> l, n |-> hist.published + 1]
              full == Len(broadcast) >= BroadcastCap
          IN /\ broadcast' = Broadcast(broadcast, logEntry)
             /\ hist' = [hist EXCEPT !.published = @ + 1,
                                     !.enq = IF full THEN @ ELSE Append(@, logEntry),
                                     !.dropped = IF full THEN @ \cup {logEntry} ELSE @]
    /\ UNCHANGED <<now, ingestVars, storeVars, hubVars, queryVars>>

\* ------------------------------------------------------------------------
\* query: strings and regular expressions of the parser
\* ------------------------------------------------------------------------
Quote == "\""

\* \s of the regexp package and the cutset of strings.TrimSpace
Spaces == {" ", "\t", "\n", "\r"}

Digits == <<"0", "1", "2", "3", "4", "5", "6", "7", "8", "9">>

\* \w of the regexp package (the model writes its names in lower case)
WordChars ==
    {"a", "b", "c", "d", "e", "f", "g", "h", "i", "j", "k", "l", "m", "n", "o", "p", "q",
     "r", "s", "t", "u", "v", "w", "x", "y", "z", "_"} \cup {Digits[i] : i \in 1..10}

Min(S) == CHOOSE x \in S : \A y \in S : x <= y

Max(S) == CHOOSE x \in S : \A y \in S : x >= y

\* s[i], or no character beyond the ends of s
CharAt(s, i) == IF i \in 1..Len(s) THEN s[i] ELSE ""

\* strings.Index(s, c) for a one-byte c: 1-based position, 0 for the Go -1
Index(s, c) ==
    LET hits == {j \in 1..Len(s) : s[j] = c}
    IN IF hits = {} THEN 0 ELSE Min(hits)

\* strings.LastIndex(s, c) for a one-byte c: 1-based position, 0 for the Go -1
LastIndex(s, c) ==
    LET hits == {j \in 1..Len(s) : s[j] = c}
    IN IF hits = {} THEN 0 ELSE Max(hits)

\* greedy run of a character class: first position from i on that is not in S
SkipIn(s, i, S) ==
    LET stops == {j \in i..Len(s) : s[j] \notin S}
    IN IF stops = {} THEN Max({i, Len(s) + 1}) ELSE Min(stops)

\* greedy run of a negated class: first position from i on that is in S
SkipTo(s, i, S) ==
    LET hits == {j \in i..Len(s) : s[j] \in S}
    IN IF hits = {} THEN Max({i, Len(s) + 1}) ELSE Min(hits)

HasPrefixAt(s, i, lit) ==
    /\ i >= 1 /\ i + Len(lit) - 1 <= Len(s)
    /\ SubSeq(s, i, i + Len(lit) - 1) = lit

\* a regexp alternation of literals: the first alternative that matches at i
RECURSIVE FirstAlt(_, _, _)
FirstAlt(s, i, alts) ==
    IF alts = << >> THEN NoStr
    ELSE IF HasPrefixAt(s, i, Head(alts)) THEN Head(alts)
    ELSE FirstAlt(s, i, Tail(alts))

\* strings.TrimSpace
TrimSpace(s) ==
    LET keep == {j \in 1..Len(s) : s[j] \notin Spaces}
    IN IF keep = {} THEN NoStr ELSE SubSeq(s, Min(keep), Max(keep))

\* strings.TrimSuffix
TrimSuffix(s, suffix) ==
    IF Len(s) >= Len(suffix) /\ SubSeq(s, Len(s) - Len(suffix) + 1, Len(s)) = suffix
    THEN SubSeq(s, 1, Len(s) - Len(suffix))
    ELSE s

\* strings.Split(s, sep) for a one-byte sep
RECURSIVE Split(_, _)
Split(s, sep) ==
    LET at == Index(s, sep)
    IN IF at = 0 THEN <<s>>
       ELSE <<SubSeq(s, 1, at - 1)>> \o Split(SubSeq(s, at + 1, Len(s)), sep)

\* strconv.ParseInt(digits, 10, 64) on a run of decimal digits
RECURSIVE ParseInt(_)
ParseInt(digits) ==
    IF digits = << >> THEN 0
    ELSE ParseInt(SubSeq(digits, 1, Len(digits) - 1)) * 10
         + (CHOOSE n \in 0..9 : Digits[n + 1] = digits[Len(digits)])

\* regexp.Compile fails: the patterns of the model are built from literals,
\* ".", "x*", a leading "^" and a trailing "$"; a repetition without operand,
\* a doubled repetition and an unclosed group or class do not compile
CompileFails(pattern) ==
    \/ CharAt(pattern, 1) = "*"
    \/ \E i \in 1..(Len(pattern) - 1) : pattern[i] = "*" /\ pattern[i + 1] = "*"
    \/ \E i \in 1..Len(pattern) :
          /\ pattern[i] = "("
          /\ \A j \in (i + 1)..Len(pattern) : pattern[j] # ")"
    \/ \E i \in 1..Len(pattern) :
          /\ pattern[i] = ")"
          /\ \A j \in 1..(i - 1) : pattern[j] # "("
    \/ \E i \in 1..Len(pattern) :
          /\ pattern[i] = "["
          /\ \A j \in (i + 1)..Len(pattern) : pattern[j] # "]"

\* one pattern character against one text character
CharMatches(p, c) == IF p = "." THEN c # "\n" ELSE p = c

\* the pattern matches a prefix of the text
RECURSIVE matchHere(_, _)
matchHere(re, text) ==
    IF re = << >> THEN TRUE
    ELSE IF Len(re) >= 2 /\ re[2] = "*"
    THEN \E k \in 0..Len(text) :
            /\ \A j \in 1..k : CharMatches(re[1], text[j])
            /\ matchHere(SubSeq(re, 3, Len(re)), SubSeq(text, k + 1, Len(text)))
    ELSE IF re = <<"$">> THEN text = << >>
    ELSE IF text # << >> /\ CharMatches(re[1], text[1])
    THEN matchHere(Tail(re), Tail(text))
    ELSE FALSE

\* Regexp.MatchString: an unanchored search
MatchString(re, s) ==
    IF CharAt(re, 1) = "^" THEN matchHere(Tail(re), s)
    ELSE \E i \in 1..(Len(s) + 1) : matchHere(re, SubSeq(s, i, Len(s)))

\* a nil *regexp.Regexp
NoRegex == <<"nil">>

\* ------------------------------------------------------------------------
\* query: ParseAdvancedQuery
\* ------------------------------------------------------------------------
MatchEqual == <<"=">>

MatchNotEqual == <<"!", "=">>

MatchRegex == <<"=", "~">>

MatchNotRegex == <<"!", "~">>

LineContains == <<"|", "=">>

LineNotContains == <<"!", "=">>

LineRegex == <<"|", "~">>

LineNotRegex == <<"!", "~">>

ErrNone == "nil"

ErrInvalidRegex == "invalid regex pattern"

\* no aggregation: the nil *Aggregation
NoAgg == [Type |-> NoStr, Duration |-> 0, GroupBy |-> << >>]

AggNames ==
    << <<"c", "o", "u", "n", "t", "_", "o", "v", "e", "r", "_", "t", "i", "m", "e">>,
       <<"r", "a", "t", "e">>,
       <<"b", "y", "t", "e", "s", "_", "o", "v", "e", "r", "_", "t", "i", "m", "e">>,
       <<"b", "y", "t", "e", "s", "_", "r", "a", "t", "e">>,
       <<"s", "u", "m">>, <<"a", "v", "g">>, <<"m", "i", "n">>, <<"m", "a", "x">> >>

\* queryRegex.FindStringSubmatch: the leftmost "{", up to the first "}" after it
queryRegex(query) ==
    LET open == Index(query, "{")
        close == SkipTo(query, open + 1, {"}"})
    IN IF open # 0 /\ close <= Len(query)
       THEN [ok |-> TRUE, content |-> SubSeq(query, open + 1, close - 1)]
       ELSE [ok |-> FALSE, content |-> NoStr]

\* an operator, optional blanks and a quoted string at position at of s
QuotedAfterOp(s, at, ops) ==
    LET op == FirstAlt(s, at, ops)
        open == SkipIn(s, at + Len(op), Spaces)
        close == SkipTo(s, open + 1, {Quote})
    IN IF op # NoStr /\ CharAt(s, open) = Quote /\ close <= Len(s)
       THEN [ok |-> TRUE, op |-> op, text |-> SubSeq(s, open + 1, close - 1), end |-> close]
       ELSE [ok |-> FALSE, op |-> NoStr, text |-> NoStr, end |-> at]

\* labelRegex anchored at position i of s: the name, then the operator and value
NamedMatch(s, i, nameEnd, rest) ==
    IF nameEnd > i /\ rest.ok
    THEN [ok |-> TRUE, name |-> SubSeq(s, i, nameEnd - 1), op |-> rest.op,
          text |-> rest.text, end |-> rest.end]
    ELSE [ok |-> FALSE, name |-> NoStr, op |-> NoStr, text |-> NoStr, end |-> i]

labelRegexAt(s, i) ==
    NamedMatch(s, i, SkipIn(s, i, WordChars),
               QuotedAfterOp(s, SkipIn(s, SkipIn(s, i, WordChars), Spaces),
                             <<MatchRegex, MatchNotRegex, MatchNotEqual, MatchEqual>>))

\* labelRegex.FindAllStringSubmatch(s, -1) from position i on
RECURSIVE labelRegexFindAll(_, _)
labelRegexFindAll(s, i) ==
    IF i > Len(s) THEN << >>
    ELSE LET m == labelRegexAt(s, i)
         IN IF m.ok THEN <<m>> \o labelRegexFindAll(s, m.end + 1)
            ELSE labelRegexFindAll(s, i + 1)

\* lineFilterRegex.FindAllStringSubmatch(s, -1) from position i on
RECURSIVE lineFilterRegexFindAll(_, _)
lineFilterRegexFindAll(s, i) ==
    IF i > Len(s) THEN << >>
    ELSE LET m == QuotedAfterOp(s, i, <<LineContains, LineRegex, LineNotContains, LineNotRegex>>)
         IN IF m.ok THEN <<m>> \o lineFilterRegexFindAll(s, m.end + 1)
            ELSE lineFilterRegexFindAll(s, i + 1)

IsRegexOp(op) == op \in {MatchRegex, MatchNotRegex, LineRegex}

\* parseLabelMatchers: the matchers of the submatches, or ErrInvalidRegex
LabelMatchers(all) ==
    IF \E i \in 1..Len(all) : IsRegexOp(all[i].op) /\ CompileFails(all[i].text)
    THEN [err |-> ErrInvalidRegex, matchers |-> << >>]
    ELSE [err |-> ErrNone,
          matchers |-> [i \in 1..Len(all) |->
                          [Name |-> TrimSpace(all[i].name), Value |-> all[i].text,
                           Operator |-> all[i].op,
                           Regex |-> IF IsRegexOp(all[i].op) THEN all[i].text ELSE NoRegex]]]

\* parseLabelMatchers on the submatch of queryRegex
SelectorMatchers(sel) ==
    IF sel.ok /\ TrimSpace(sel.content) # NoStr
    THEN LabelMatchers(labelRegexFindAll(sel.content, 1))
    ELSE [err |-> ErrNone, matchers |-> << >>]

\* parseLabelMatchers
parseLabelMatchers(query) == SelectorMatchers(queryRegex(query))

\* parseLineFilters: the filters of the submatches, or ErrInvalidRegex
LineFilters(all) ==
    IF \E i \in 1..Len(all) : IsRegexOp(all[i].op) /\ CompileFails(all[i].text)
    THEN [err |-> ErrInvalidRegex, filters |-> << >>]
    ELSE [err |-> ErrNone,
          filters |-> [i \in 1..Len(all) |->
                         [Pattern |-> all[i].text, Operator |-> all[i].op,
                          Regex |-> IF IsRegexOp(all[i].op) THEN all[i].text ELSE NoRegex]]]

\* parseLineFilters: the text after the selector without a [range]
DropRange(afterSel, idx, endIdx) ==
    IF idx # 0 /\ endIdx > idx
    THEN SubSeq(afterSel, 1, idx - 1) \o SubSeq(afterSel, endIdx + 1, Len(afterSel))
    ELSE afterSel

\* parseLineFilters on the text after the last "}"
FiltersAfter(afterSel) ==
    LineFilters(lineFilterRegexFindAll(
        TrimSuffix(TrimSpace(DropRange(afterSel, Index(afterSel, "["), Index(afterSel, "]"))),
                   <<")">>), 1))

\* parseLineFilters
parseLineFilters(query) ==
    IF LastIndex(query, "}") = 0 THEN [err |-> ErrNone, filters |-> << >>]
    ELSE FiltersAfter(SubSeq(query, LastIndex(query, "}") + 1, Len(query)))

\* aggFuncRegex.FindStringSubmatch: the function name the query starts with
aggFuncRegex(query) ==
    LET name == FirstAlt(query, 1, AggNames)
    IN IF name # NoStr /\ CharAt(query, SkipIn(query, Len(name) + 1, Spaces)) = "("
       THEN name ELSE NoStr

\* timeRangeRegex.FindStringSubmatch: the leftmost [<digits><unit>]
timeRangeRegex(query) ==
    LET digitSet == {Digits[i] : i \in 1..10}
        unitAt(i) == SkipIn(query, i + 1, digitSet)
        starts == {i \in 1..Len(query) :
                      /\ query[i] = "["
                      /\ unitAt(i) > i + 1
                      /\ CharAt(query, unitAt(i)) \in {"s", "m", "h", "d"}
                      /\ CharAt(query, unitAt(i) + 1) = "]"}
    IN IF starts = {} THEN [ok |-> FALSE, value |-> NoStr, unit |-> ""]
       ELSE LET i == Min(starts)
            IN [ok |-> TRUE, value |-> SubSeq(query, i + 1, unitAt(i) - 1),
                unit |-> query[unitAt(i)]]

\* groupByRegex.FindStringSubmatch: the leftmost by (<labels>)
groupByRegex(query) ==
    LET openAt(i) == SkipIn(query, i + 2, Spaces)
        closeAt(i) == SkipTo(query, openAt(i) + 1, {")"})
        starts == {i \in 1..Len(query) :
                      /\ HasPrefixAt(query, i, <<"b", "y">>)
                      /\ CharAt(query, openAt(i)) = "("
                      /\ closeAt(i) > openAt(i) + 1
                      /\ closeAt(i) <= Len(query)}
    IN IF starts = {} THEN [ok |-> FALSE, content |-> NoStr]
       ELSE LET i == Min(starts)
            IN [ok |-> TRUE, content |-> SubSeq(query, openAt(i) + 1, closeAt(i) - 1)]

\* parseAggregation: the aggregation and the inner query
parseAggregation(query, funcName) ==
    LET timeMatch == timeRangeRegex(query)
        value == ParseInt(timeMatch.value)
        duration == CASE ~timeMatch.ok -> 0
                      [] timeMatch.unit = "s" -> value
                      [] timeMatch.unit = "m" -> value * 60
                      [] timeMatch.unit = "h" -> value * 3600
                      [] OTHER -> value * 86400
        groupByMatch == groupByRegex(query)
        parts == Split(groupByMatch.content, ",")
        groupBy == IF groupByMatch.ok THEN [i \in 1..Len(parts) |-> TrimSpace(parts[i])]
                   ELSE << >>
        idx == Index(query, "{")
        depth(i) == Cardinality({j \in idx..i : query[j] = "{"})
                    - Cardinality({j \in idx..i : query[j] = "}"})
        closed == {i \in idx..Len(query) : query[i] = "}" /\ depth(i) = 0}
        endIdx == IF closed = {} THEN idx ELSE Min(closed)
        afterBrace == SubSeq(query, endIdx + 1, Len(query))
        filterIdx == Index(afterBrace, "|")
        endFilter == IF Index(afterBrace, "[") # 0 THEN Index(afterBrace, "[")
                     ELSE Index(afterBrace, ")")
        innerQuery == IF idx = 0 THEN query
                      ELSE SubSeq(query, idx, endIdx)
                           \o (IF filterIdx # 0 /\ endFilter > filterIdx
                               THEN SubSeq(afterBrace, 1, endFilter - 1) ELSE NoStr)
    IN [agg |-> [Type |-> funcName, Duration |-> duration, GroupBy |-> groupBy],
        innerQuery |-> innerQuery]

\* ParseAdvancedQuery: the parsed query, or the first error
ParsedQuery(labelMatchers, lineFilters, aggregation) ==
    IF labelMatchers.err # ErrNone
    THEN [err |-> labelMatchers.err, LabelMatchers |-> << >>, LineFilters |-> << >>,
          Aggregation |-> NoAgg]
    ELSE IF lineFilters.err # ErrNone
    THEN [err |-> lineFilters.err, LabelMatchers |-> << >>, LineFilters |-> << >>,
          Aggregation |-> NoAgg]
    ELSE [err |-> ErrNone, LabelMatchers |-> labelMatchers.matchers,
          LineFilters |-> lineFilters.filters, Aggregation |-> aggregation]

\* ParseAdvancedQuery after the aggregation was split off
ParseInner(agg) ==
    ParsedQuery(parseLabelMatchers(agg.innerQuery), parseLineFilters(agg.innerQuery), agg.agg)

\* ParseAdvancedQuery on the trimmed query
ParseTrimmed(query, aggMatch) ==
    IF query = NoStr
    THEN [err |-> ErrNone, LabelMatchers |-> << >>, LineFilters |-> << >>,
          Aggregation |-> NoAgg]
    ELSE IF aggMatch # NoStr THEN ParseInner(parseAggregation(query, aggMatch))
    ELSE ParseInner([agg |-> NoAgg, innerQuery |-> query])

\* ParseAdvancedQuery
ParseAdvancedQuery(queryStr) ==
    ParseTrimmed(TrimSpace(queryStr), aggFuncRegex(TrimSpace(queryStr)))

\* ParseQuery: the exact matches of the parsed query as a map, a later matcher
\* of a name overwriting an earlier one
ParseQuery(query) ==
    LET parsed == ParseAdvancedQuery(query)
        m == parsed.LabelMatchers
        eq == {i \in 1..Len(m) : m[i].Operator = MatchEqual}
    IN IF parsed.err # ErrNone
       THEN [err |-> parsed.err, labels |-> NoLabels]
       ELSE [err |-> ErrNone,
             labels |-> [k \in {m[i].Name : i \in eq} |->
                           m[Max({i \in eq : m[i].Name = k})].Value]]

\* the orders in which a range over a map may visit its keys
RECURSIVE MapOrders(_)
MapOrders(S) ==
    IF S = {} THEN {<< >>}
    ELSE UNION {{<<k>> \o rest : rest \in MapOrders(S \ {k})} : k \in S}

\* BuildQuery: the strings it may return, one for every order of the map iteration
BuildQuery(labels) ==
    IF DOMAIN labels = {} THEN {<<"{", "}">>}
    ELSE {<<"{">>
          \o JoinParts([i \in 1..Len(keys) |->
                           keys[i] \o <<"=", Quote>> \o labels[keys[i]] \o <<Quote>>],
                       <<",", " ">>)
          \o <<"}">> : keys \in MapOrders(DOMAIN labels)}

\* LabelMatcher.Match
LabelMatcherMatch(m, labels) ==
    LET exists == m.Name \in DOMAIN labels
        value == MapGet(labels, m.Name)
    IN CASE m.Operator = MatchEqual -> exists /\ value = m.Value
         [] m.Operator = MatchNotEqual -> ~exists \/ value # m.Value
         [] m.Operator = MatchRegex ->
               exists /\ m.Regex # NoRegex /\ MatchString(m.Regex, value)
         [] m.Operator = MatchNotRegex ->
               ~exists \/ (m.Regex # NoRegex /\ ~MatchString(m.Regex, value))
         [] OTHER -> FALSE

\* LineFilter.Match
LineFilterMatch(f, line) ==
    CASE f.Operator = LineContains -> Contains(line, f.Pattern)
      [] f.Operator = LineNotContains -> ~Contains(line, f.Pattern)
      [] f.Operator = LineRegex -> f.Regex # NoRegex /\ MatchString(f.Regex, line)
      [] f.Operator = LineNotRegex -> f.Regex = NoRegex \/ ~MatchString(f.Regex, line)
      [] OTHER -> TRUE

\* ParsedQuery.MatchLabels
MatchLabels(parsed, labels) ==
    \A i \in 1..Len(parsed.LabelMatchers) : LabelMatcherMatch(parsed.LabelMatchers[i], labels)

\* ParsedQuery.MatchLine
MatchLine(parsed, line) ==
    \A i \in 1..Len(parsed.LineFilters) : LineFilterMatch(parsed.LineFilters[i], line)

\* ------------------------------------------------------------------------
\* storage.Reader
\* ------------------------------------------------------------------------
\* json.Unmarshal of a line into a LogEntry
Unmarshal(line) ==
    [ID |-> line.id, Timestamp |-> line.timestamp, Line |-> line.message,
     Labels |-> line.labels, n |-> line.n]

\* the length of a line of a chunk file, which its message dominates
JsonLen(line) == Len(line.message)

\* bufio.Scanner over the file: Scan stops with ErrTooLong at the first line
\* longer than the buffer limit; the lines before it were decoded and appended
Scan(lines) ==
    LET long == {i \in 1..Len(lines) : JsonLen(lines[i]) > MaxScanTokenSize}
        stop == IF long = {} THEN Len(lines) ELSE Min(long) - 1
    IN [err |-> long # {},
        entries |-> [i \in 1..stop |-> Unmarshal(lines[i])]]

\* Reader.ReadChunk: os.Open fails when the file does not exist
ReadChunk(labels, chunkID) ==
    LET chunkPath == <<ToPath(labels), chunkID, "log">>
    IN IF chunkPath \in DOMAIN disk
       THEN Scan(disk[chunkPath])
       ELSE [err |-> TRUE, entries |-> << >>]

\* Reader.ReadChunkFiltered
ReadChunkFiltered(labels, chunkID, startTime, endTime) ==
    LET read == ReadChunk(labels, chunkID)
    IN IF read.err THEN [err |-> TRUE, entries |-> << >>, scannedLines |-> 0]
       ELSE [err |-> FALSE,
             entries |-> SelectSeq(read.entries,
                            LAMBDA entry : ~(entry.Timestamp < startTime
                                             \/ entry.Timestamp > endTime)),
             scannedLines |-> Len(read.entries)]

\* ------------------------------------------------------------------------
\* query.Executor
\* ------------------------------------------------------------------------
KeyLevel == <<"l", "e", "v", "e", "l">>

LevelInfo == <<"i", "n", "f", "o">>

\* the LogResponse of an entry
LogResponse(entry) ==
    [ID |-> entry.ID, Timestamp |-> entry.Timestamp,
     Level |-> IF KeyLevel \in DOMAIN entry.Labels THEN entry.Labels[KeyLevel] ELSE LevelInfo,
     Message |-> entry.Line, Labels |-> entry.Labels, n |-> entry.n]

\* sort.Slice with less = Timestamp.After: every order the sort may leave the
\* matched entries in (entries of equal timestamp in any order)
RECURSIVE SortSlice(_)
SortSlice(logs) ==
    IF logs = {} THEN {<< >>}
    ELSE UNION {{<<first>> \o rest : rest \in SortSlice(logs \ {first})} :
                  first \in {x \in logs :
                                \A y \in logs : ~(y.entry.Timestamp > x.entry.Timestamp)}}

RECURSIVE SumOver(_, _)
SumOver(S, f) ==
    IF S = {} THEN 0
    ELSE LET x == CHOOSE y \in S : TRUE IN f[x] + SumOver(S \ {x}, f)

\* Execute: the exact-match labels handed to FindChunks (a later matcher of
\* the same name overwrites an earlier one)
simpleLabels(matchers) ==
    LET eq == {i \in 1..Len(matchers) : matchers[i].Operator = MatchEqual}
    IN [k \in {matchers[i].Name : i \in eq} |->
           matchers[Max({i \in eq : matchers[i].Name = k})].Value]

\* Execute: GetChunkMeta and ReadChunkFiltered for every chunk id found
ReadChunks(chunkIDs, startTime, endTime) ==
    [id \in chunkIDs |->
        IF id \in DOMAIN chunkMeta
        THEN ReadChunkFiltered(GetChunkMeta(id).Labels, id, startTime, endTime)
        ELSE [err |-> TRUE, entries |-> << >>, scannedLines |-> 0]]

\* an Execute that gives up all entries when the read of a chunk fails
allLogs_FailedReadEndsQuery(parsed, read) ==
    IF \E c \in DOMAIN read : read[c].err THEN {}
    ELSE UNION {{[chunk |-> id, at |-> i, entry |-> read[id].entries[i]] :
                   i \in {j \in 1..Len(read[id].entries) :
                             /\ MatchLabels(parsed, read[id].entries[j].Labels)
                             /\ MatchLine(parsed, read[id].entries[j].Line)}} :
                id \in DOMAIN read}

\* Execute: the entries of the readable chunks that pass MatchLabels and MatchLine
allLogs(parsed, read) ==
    UNION {{[chunk |-> id, at |-> i, entry |-> read[id].entries[i]] :
              i \in {j \in 1..Len(read[id].entries) :
                        /\ MatchLabels(parsed, read[id].entries[j].Labels)
                        /\ MatchLine(parsed, read[id].entries[j].Line)}} :
           id \in {c \in DOMAIN read : ~read[c].err}}

ApplyLimit_TruncatesAggregation(sorted, limit, aggregation) ==
    IF limit > 0 /\ Len(sorted) > limit THEN SubSeq(sorted, 1, limit) ELSE sorted

\* Execute: the limit, for a query without aggregation
ApplyLimit(sorted, limit, aggregation) ==
    IF limit > 0 /\ Len(sorted) > limit /\ aggregation = NoAgg
    THEN SubSeq(sorted, 1, limit) ELSE sorted

\* the nil *AggregationResult
NoAggResult == [Type |-> NoStr, Value |-> 0, Series |-> << >>]

\* the step of computeTimeSeries, one minute when the query names none
StepOf(stepSeconds) == (IF stepSeconds <= 0 THEN 60 ELSE stepSeconds) * TicksPerSecond

\* computeTimeSeries with countAggFunc: the buckets start at startTime, the last
\* one is cut at endTime; the time of a point is formatted without fraction
computeTimeSeries(logs, stepSeconds, startTime, endTime) ==
    LET step == StepOf(stepSeconds)
        starts == {t \in startTime..(endTime - 1) : (t - startTime) % step = 0}
    IN [i \in 1..Cardinality(starts) |->
          LET t == startTime + (i - 1) * step
              bucketEnd == Min({t + step, endTime})
          IN [Timestamp |-> Unix(t),
              Value |-> Cardinality({l \in logs : /\ ~(l.entry.Timestamp < t)
                                                  /\ l.entry.Timestamp < bucketEnd})]]

\* computeAggregation for count_over_time and for sum, avg, min and max without
\* grouping (the rate and byte aggregations are not part of the model)
computeAggregation(agg, logs, startTime, endTime) ==
    IF agg = NoAgg THEN NoAggResult
    ELSE IF agg.Type = AggNames[1]
    THEN [Type |-> agg.Type, Value |-> Cardinality(logs),
          Series |-> computeTimeSeries(logs, agg.Duration, startTime, endTime)]
    ELSE [Type |-> agg.Type, Value |-> Cardinality(logs), Series |-> << >>]

\* Execute: the QueryResult for one order of the matched entries
QueryResult(logs, read, matched, aggResult) ==
    [err |-> ErrNone,
     Aggregation |-> aggResult,
     Logs |-> [i \in 1..Len(logs) |-> LogResponse(logs[i].entry)],
     Stats |-> [QueriedChunks |-> Cardinality(DOMAIN read),
                ScannedLines |-> SumOver(DOMAIN read, [id \in DOMAIN read |-> read[id].scannedLines]),
                MatchedLines |-> Cardinality(matched)]]

ExecuteAggregated(parsed, read, matched, limit, aggResult) ==
    {QueryResult(ApplyLimit(sorted, limit, parsed.Aggregation), read, matched, aggResult) :
        sorted \in SortSlice(matched)}

ExecuteMatched(parsed, read, matched, limit, startTime, endTime) ==
    ExecuteAggregated(parsed, read, matched, limit,
                      computeAggregation(parsed.Aggregation, matched, startTime, endTime))

ExecuteRead(parsed, read, limit, startTime, endTime) ==
    ExecuteMatched(parsed, read, allLogs(parsed, read), limit, startTime, endTime)

ExecuteParsed(parsed, startTime, endTime, limit) ==
    IF parsed.err # ErrNone
    THEN {[err |-> parsed.err, Logs |-> << >>, Aggregation |-> NoAggResult,
           Stats |-> [QueriedChunks |-> 0, ScannedLines |-> 0, MatchedLines |-> 0]]}
    ELSE ExecuteRead(parsed,
                     ReadChunks(FindChunks(simpleLabels(parsed.LabelMatchers), startTime, endTime),
                                startTime, endTime),
                     limit, startTime, endTime)

\* Executor.Execute: the results the call may return (the order in which the
\* chunks of the index map are visited and the order of equal timestamps are
\* not determined)
Execute(queryStr, startTime, endTime, limit) ==
    ExecuteParsed(ParseAdvancedQuery(queryStr), startTime, endTime, limit)

\* ------------------------------------------------------------------------
\* Queries the model runs
\* ------------------------------------------------------------------------
Sel(name, op, value) == [name |-> name, op |-> op, value |-> value]

Fil(op, pattern) == [op |-> op, pattern |-> pattern]

Q(form, matchers, filters) == [form |-> form, matchers |-> matchers, filters |-> filters]

A3 == Sel(KeyA, MatchEqual, <<"3">>)

Queries ==
    { Q("empty", << >>, << >>),
      Q("selector", << >>, << >>),
      Q("selector", <<A3>>, << >>),
      Q("selector", <<Sel(KeyA, MatchEqual, <<"1">>), Sel(KeyB, MatchEqual, <<"2">>)>>, << >>),
      Q("selector", <<Sel(KeyA, MatchNotEqual, <<"3">>)>>, << >>),
      Q("selector", <<Sel(KeyA, MatchRegex, <<"^", "1">>)>>, << >>),
      Q("selector", <<Sel(KeyB, MatchNotRegex, <<"2">>)>>, << >>),
      Q("selector", <<Sel(KeyB, MatchEqual, NoStr)>>, << >>),
      Q("selector", <<Sel(KeyA, MatchRegex, <<"(">>)>>, << >>),
      Q("selector", <<A3>>, <<Fil(LineContains, <<"x">>)>>),
      Q("selector", <<A3>>, <<Fil(LineNotContains, <<"y", "y">>)>>),
      Q("selector", <<A3>>, <<Fil(LineRegex, <<"^", "y">>)>>),
      Q("selector", <<A3>>, <<Fil(LineNotRegex, <<"y", "$">>)>>),
      Q("selector", <<A3>>, <<Fil(LineContains, <<"}">>)>>),
      Q("sum", <<A3>>, << >>),
      Q("count", <<A3>>, << >>) }

\* the range of the count_over_time query of the model
CountSeconds == 1

CountRange == <<"[", Digits[CountSeconds + 1], "s", "]">>

RECURSIVE FiltersText(_)
FiltersText(filters) ==
    IF filters = << >> THEN NoStr
    ELSE <<" ">> \o Head(filters).op \o <<" ", Quote>> \o Head(filters).pattern \o <<Quote>>
         \o FiltersText(Tail(filters))

\* the query string of a query: {k OP "v", ...} followed by its line filters
QueryText(q) ==
    LET parts == [i \in 1..Len(q.matchers) |->
                    q.matchers[i].name \o q.matchers[i].op
                    \o <<Quote>> \o q.matchers[i].value \o <<Quote>>]
        selector == <<"{">> \o JoinParts(parts, <<",", " ">>) \o <<"}">>
    IN CASE q.form = "empty" -> NoStr
         [] q.form = "sum" -> <<"s", "u", "m", "(">> \o selector \o FiltersText(q.filters) \o <<")">>
         [] q.form = "count" -> AggNames[1] \o <<"(">> \o selector \o FiltersText(q.filters)
                                  \o CountRange \o <<")">>
         [] OTHER -> selector \o FiltersText(q.filters)

FindQueries == {NoLabels, LA, (KeyA :> <<"3">>), (KeyA :> <<"1">>), (KeyB :> NoStr)}

Windows == {w \in Times \X Times : w[1] <= w[2]}

Limits == {-1, 0, 1}

NoFound == [called |-> FALSE]

NoQueryResult == [called |-> FALSE]

QueryProcs == {"i1"}

\* no request is being served and the flush worker waits for its ticker
Quiescent ==
    /\ \A p \in QueryProcs : pc[p] = "idle"
    /\ pc["timer"] = "select"
    /\ ~found.called /\ ~result.called

\* a call of Index.FindChunks
QFindChunks ==
    /\ Quiescent
    /\ \E query \in FindQueries, w \in Windows :
          found' = [called |-> TRUE, query |-> query, startTime |-> w[1], endTime |-> w[2],
                    ids |-> FindChunks(query, w[1], w[2])]
    /\ UNCHANGED <<now, ingestVars, storeVars, broadcast, hubVars, result, call, hist>>

\* a call of Executor.Execute
QExecute ==
    /\ Quiescent
    /\ \E q \in Queries, w \in Windows, limit \in Limits :
          \E out \in Execute(QueryText(q), w[1], w[2], limit) :
              result' = [called |-> TRUE, query |-> q, startTime |-> w[1], endTime |-> w[2],
                         limit |-> limit, err |-> out.err, Logs |-> out.Logs,
                         Stats |-> out.Stats, Aggregation |-> out.Aggregation]
    /\ UNCHANGED <<now, ingestVars, storeVars, broadcast, hubVars, found, call, hist>>

\* the queries of a reader while the retention worker sweeps: every stream and
\* the stream {a="3"}, over all times
SweptQueries == {Q("selector", << >>, << >>), Q("selector", <<A3>>, << >>)}

SweptWindows == {<<0, 3>>}

\* a call of Executor.Execute by that reader
QExecuteSwept ==
    /\ Quiescent
    /\ \E q \in SweptQueries, w \in SweptWindows :
          \E out \in Execute(QueryText(q), w[1], w[2], 0) :
              result' = [called |-> TRUE, query |-> q, startTime |-> w[1], endTime |-> w[2],
                         limit |-> 0, err |-> out.err, Logs |-> out.Logs,
                         Stats |-> out.Stats, Aggregation |-> out.Aggregation]
    /\ UNCHANGED <<now, ingestVars, storeVars, broadcast, hubVars, found, call, hist>>

\* the index is persisted and the index of the process is replaced by the one
\* LoadIndex returns, while no request and no flush is running
PersistLoadCall ==
    /\ Quiescent
    /\ hist.loads < MaxLoads
    /\ \E idx \in {LoadIndex(PersistIndex)} :
          /\ labelIndex' = idx.labelIndex
          /\ chunkMeta' = idx.chunkMeta
          /\ labelKeys' = idx.labelKeys
          /\ labelValues' = idx.labelValues
    /\ hist' = [hist EXCEPT !.loads = @ + 1]
    /\ UNCHANGED <<now, ingestVars, chunkSeq, disk, modTime, dirs, broadcast, hubVars,
                   queryVars>>

\* the caller is done with the answer
QReturn ==
    /\ found.called \/ result.called
    /\ found' = NoFound
    /\ result' = NoQueryResult
    /\ UNCHANGED <<now, ingestVars, storeVars, broadcast, hubVars, call, hist>>

\* ------------------------------------------------------------------------
\* Calls of the functions of the labels primitive and of the parser
\* ------------------------------------------------------------------------
NoCall == [fn |-> "none"]

\* values a valid label may carry: separators of the serialisations included
CallValues == {<<"1">>, <<"2">>, <<"1", ",", "b", "=", "2">>, <<"1", "_", "b", "=", "2">>}

\* valid label sets over the keys a and b
CallLabelSets == UNION {[K -> CallValues] : K \in (SUBSET {KeyA, KeyB}) \ {{}}}

\* Labels.Hash is called on two label sets
CallHash ==
    /\ call = NoCall
    /\ \E l1, l2 \in CallLabelSets :
          call' = [fn |-> "Hash", in |-> <<l1, l2>>, out |-> <<Hash(l1), Hash(l2)>>]
    /\ UNCHANGED <<now, ingestVars, storeVars, broadcast, hubVars, found, result, hist>>

\* Labels.ToPath is called on two label sets
CallToPath ==
    /\ call = NoCall
    /\ \E l1, l2 \in CallLabelSets :
          call' = [fn |-> "ToPath", in |-> <<l1, l2>>, out |-> <<ToPath(l1), ToPath(l2)>>]
    /\ UNCHANGED <<now, ingestVars, storeVars, broadcast, hubVars, found, result, hist>>

\* {a="3"}, the selector the query strings below are variations of
SelA3 == <<"{", "a", "=", Quote, "3", Quote, "}">>

\* query strings with a defect: a brace that is not closed or not opened, a
\* selector entry without operator or without quotes, a label regex and a line
\* regex that do not compile, an aggregation that does not exist
IllFormedQueries ==
    { <<"{", "a", "=", Quote, "3", Quote>>,
      <<"a", "=", Quote, "3", Quote, "}">>,
      <<"{", "a", "}">>,
      <<"{", "a", "=", "3", "}">>,
      <<"{", "a", "=", "~", Quote, "(", Quote, "}">>,
      SelA3 \o <<" ", "|", "~", " ", Quote, "(", Quote>>,
      <<"f", "o", "o", "(">> \o SelA3 \o <<")">> }

WellFormedQueries ==
    { NoStr, SelA3, <<"{", "}">>,
      <<"{", "a", "=", "~", Quote, "3", Quote, "}">>,
      SelA3 \o <<" ", "|", "=", " ", Quote, "x", Quote>>,
      <<"s", "u", "m", "(">> \o SelA3 \o <<")">> }

\* ParseAdvancedQuery is called on a query string
CallParseAdvancedQuery ==
    /\ call = NoCall
    /\ \E query \in IllFormedQueries \cup WellFormedQueries :
          call' = [fn |-> "ParseAdvancedQuery", in |-> query,
                   out |-> ParseAdvancedQuery(query)]
    /\ UNCHANGED <<now, ingestVars, storeVars, broadcast, hubVars, found, result, hist>>

\* Executor.Execute is called on a query string
CallExecute ==
    /\ call = NoCall
    /\ \E query \in IllFormedQueries \cup WellFormedQueries, w \in Windows :
          \E out \in Execute(query, w[1], w[2], 0) :
              call' = [fn |-> "Execute", in |-> query, out |-> out]
    /\ UNCHANGED <<now, ingestVars, storeVars, broadcast, hubVars, found, result, hist>>

\* values of the label sets a selector is built from
BuildValues == {<<"1">>, <<"2">>, <<"}">>, <<Quote>>, <<"1", Quote, "2">>}

BuildLabelSets == UNION {[K -> BuildValues] : K \in (SUBSET {KeyA, KeyB}) \ {{}}}

\* BuildQuery is called on a label set and ParseQuery on the string it returns
CallBuildParse ==
    /\ call = NoCall
    /\ \E labels \in BuildLabelSets :
          \E query \in BuildQuery(labels) :
              call' = [fn |-> "ParseQuery", in |-> labels, query |-> query,
                       out |-> ParseQuery(query)]
    /\ UNCHANGED <<now, ingestVars, storeVars, broadcast, hubVars, found, result, hist>>

\* the operators of a label matcher
MatchOperators == {MatchEqual, MatchNotEqual, MatchRegex, MatchNotRegex}

\* values and patterns of the matchers the model calls Match with
MatchValues == {<<"1">>, <<"^", "2">>, <<"}">>}

\* LabelMatcher.Match is called on the matchers of the four operators with one
\* name and one value, built as struct literals: the Regex field is nil or the
\* compiled value
CallMatch ==
    /\ call = NoCall
    /\ \E name \in {KeyA, KeyB}, value \in MatchValues, labels \in CallLabelSets,
          regex \in {NoRegex} \cup {v \in MatchValues : ~CompileFails(v)} :
          /\ regex \in {NoRegex, value}
          /\ call' = [fn |-> "Match", in |-> <<name, value, labels>>, regex |-> regex,
                      out |-> [op \in MatchOperators |->
                                 LabelMatcherMatch([Name |-> name, Value |-> value,
                                                    Operator |-> op, Regex |-> regex],
                                                   labels)]]
    /\ UNCHANGED <<now, ingestVars, storeVars, broadcast, hubVars, found, result, hist>>

\* ParsedQuery.MatchLabels is called with the parsed selectors {name op "value"}
\* of the four operators
CallMatchLabels ==
    /\ call = NoCall
    /\ \E name \in {KeyA, KeyB}, value \in MatchValues, labels \in CallLabelSets :
          call' = [fn |-> "MatchLabels", in |-> <<name, value, labels>>,
                   out |-> [op \in MatchOperators |->
                              MatchLabels(ParseAdvancedQuery(
                                              QueryText(Q("selector", <<Sel(name, op, value)>>,
                                                          << >>))),
                                          labels)]]
    /\ UNCHANGED <<now, ingestVars, storeVars, broadcast, hubVars, found, result, hist>>

\* the routes NewRouter registers for ingestion, queries and the live tail,
\* each with its methods
Routes ==
    { [Path |-> "/ingest", Methods |-> {"POST", "OPTIONS"}],
      [Path |-> "/query", Methods |-> {"GET", "OPTIONS"}],
      [Path |-> "/stream", Methods |-> {"GET"}] }

\* a header that is not set
NoHeader == ""

\* the configurations of the auth section
AuthConfigs == {[Enabled |-> FALSE, APIKey |-> ""], [Enabled |-> TRUE, APIKey |-> "key"]}

\* the requests that match a route: method, path and the three headers the
\* middlewares read
HttpRequests ==
    {r \in [Method : {"GET", "POST", "OPTIONS"}, Path : {rt.Path : rt \in Routes},
             Upgrade : {NoHeader, "websocket"}, XAPIKey : {NoHeader, "key", "other"},
             Authorization : {NoHeader, "key"}] :
        \E rt \in Routes : rt.Path = r.Path /\ r.Method \in rt.Methods}

StatusUnauthorized == 401

\* the handler of the route is called and writes the response
RouteHandler(r) == [reached |-> TRUE, status |-> 0]

\* authMiddleware(apiKey)
authMiddleware(apiKey, r) ==
    IF r.Method = "OPTIONS" THEN RouteHandler(r)
    ELSE IF r.Upgrade = "websocket" THEN RouteHandler(r)
    ELSE IF (IF r.XAPIKey = NoHeader THEN r.Authorization ELSE r.XAPIKey) # apiKey
    THEN [reached |-> FALSE, status |-> StatusUnauthorized]
    ELSE RouteHandler(r)

\* corsMiddleware, then loggingMiddleware, then authMiddleware when the auth
\* section is enabled: the chain the router runs for a request that matches
corsMiddleware(cfg, r) ==
    IF r.Method = "OPTIONS" THEN [reached |-> FALSE, status |-> StatusOK]
    ELSE IF cfg.Enabled THEN authMiddleware(cfg.APIKey, r)
    ELSE RouteHandler(r)

\* the router serves a request
CallServeHTTP ==
    /\ call = NoCall
    /\ \E cfg \in AuthConfigs, r \in HttpRequests :
          call' = [fn |-> "ServeHTTP", cfg |-> cfg, in |-> r, out |-> corsMiddleware(cfg, r)]
    /\ UNCHANGED <<now, ingestVars, storeVars, broadcast, hubVars, found, result, hist>>

\* the caller is done with what the function returned
CallReturn ==
    /\ call # NoCall
    /\ call' = NoCall
    /\ UNCHANGED <<now, ingestVars, storeVars, broadcast, hubVars, found, result, hist>>

\* ------------------------------------------------------------------------
\* Specifications
\* ------------------------------------------------------------------------
NoHist == [reserved |-> 0, accepted |-> {}, lost |-> {}, failed |-> 0, flushed |-> {},
           enq |-> << >>, dropped |-> {}, published |-> 0,
           writeFailed |-> {}, updates |-> 0, swept |-> {}, removed |-> {}, batch |-> << >>,
           confirmed |-> << >>, ids |-> << >>, loads |-> 0,
           body |-> [p \in IngestProcs |-> NoBody], status |-> [p \in IngestProcs |-> 0]]

Init ==
    /\ now = 0
    /\ buffers = << >>
    /\ bufferMu = NoOwner
    /\ ingestedLines = 0
    /\ ingestedBytes = 0
    /\ stopChan = FALSE
    /\ pc = [p \in Procs |-> IF p = "timer" THEN "select" ELSE "idle"]
    /\ loc = [p \in Procs |-> IdleLoc]
    /\ chunkSeq = 0
    /\ disk = << >>
    /\ modTime = << >>
    /\ dirs = {}
    /\ labelIndex = << >>
    /\ chunkMeta = << >>
    /\ labelKeys = {}
    /\ labelValues = << >>
    /\ broadcast = << >>
    /\ clients = << >>
    /\ hubMu = "free"
    /\ hub = HubIdle
    /\ conn = [c \in Conns |-> NewConn]
    /\ found = NoFound
    /\ result = NoQueryResult
    /\ call = NoCall
    /\ hist = NoHist

\* the ingest pipeline with its writer and index: concurrent Ingest callers,
\* the flush worker and Stop, all within one reading of the clock
Next ==
    \/ \E p \in IngestProcs : IngestCall(p)
    \/ \E p \in IngestProcs : IngestSkipStream(p)
    \/ \E p \in IngestProcs : IngestLockStream(p)
    \/ \E p \in IngestProcs : IngestEntry(p)
    \/ \E p \in IngestProcs : IngestNoFlush(p)
    \/ \E p \in IngestProcs : IngestFlush(p)
    \/ \E p \in Procs : FlushBufferWrite(p)
    \/ \E p \in IngestProcs : IngestFlushDone(p)
    \/ \E p \in IngestProcs : IngestReturn(p)
    \/ TimerTick
    \/ TimerExit
    \/ StopClose
    \/ StopWait
    \/ \E p \in FlushProcs : FlushAllLock(p)
    \/ \E p \in FlushProcs : FlushAllNext(p)
    \/ \E p \in FlushProcs : FlushAllBufferDone(p)
    \/ \E p \in FlushProcs : FlushAllReturn(p)

Spec == Init /\ [][Next]_vars

\* the ingest pipeline behind the HTTP handler of POST /ingest; a request that
\* passed ValidateIngestRequest has no stream for Ingest to skip
NextHttp ==
    \/ \E p \in IngestProcs : HandlerIngest(p)
    \/ \E p \in IngestProcs : IngestLockStream(p)
    \/ \E p \in IngestProcs : IngestEntry(p)
    \/ \E p \in IngestProcs : IngestNoFlush(p)
    \/ \E p \in IngestProcs : IngestFlush(p)
    \/ \E p \in Procs : FlushBufferWrite(p)
    \/ \E p \in IngestProcs : IngestFlushDone(p)
    \/ \E p \in IngestProcs : HandlerRespond(p)
    \/ TimerTick
    \/ TimerExit
    \/ StopClose
    \/ StopWait
    \/ \E p \in FlushProcs : FlushAllLock(p)
    \/ \E p \in FlushProcs : FlushAllNext(p)
    \/ \E p \in FlushProcs : FlushAllBufferDone(p)
    \/ \E p \in FlushProcs : FlushAllReturn(p)

SpecHttp == Init /\ [][NextHttp]_vars

\* one Ingest caller publishing to the hub while Run drains the channel and the
\* clock advances
TailProcs == {"i1"}

NextTail ==
    \/ \E p \in TailProcs : IngestCall(p)
    \/ \E p \in TailProcs : IngestSkipStream(p)
    \/ \E p \in TailProcs : IngestLockStream(p)
    \/ \E p \in TailProcs : IngestEntry(p)
    \/ \E p \in TailProcs : IngestNoFlush(p)
    \/ \E p \in TailProcs : IngestFlush(p)
    \/ \E p \in TailProcs : FlushBufferWrite(p)
    \/ \E p \in TailProcs : IngestFlushDone(p)
    \/ \E p \in TailProcs : IngestReturn(p)
    \/ HubRecvBroadcast
    \/ HubEndRange
    \/ ClockTick

SpecTail == Init /\ [][NextTail]_vars

\* the live-tail hub with its subscribers
NextHub ==
    \/ Publish
    \/ \E c \in Conns : Connect(c)
    \/ HubRecvRegister
    \/ HubStoreRegister
    \/ HubRecvUnregister
    \/ HubApplyUnregister
    \/ HubRecvBroadcast
    \/ HubDeliver
    \/ HubEndRange
    \/ \E c \in Conns : HandlerWelcome(c)
    \/ \E c \in Conns : ReaderFilter(c)
    \/ \E c \in Conns : ReaderConfirm(c)
    \/ \E c \in Conns : ReaderError(c)
    \/ \E c \in Conns : ConnBreak(c)

SpecHub == Init /\ [][NextHub]_vars

\* the store filled by one Ingest caller and the flush worker while the clock
\* advances, queried between the requests
NextQuery ==
    \/ \E p \in QueryProcs : Quiescent /\ IngestCall(p)
    \/ \E p \in QueryProcs : IngestSkipStream(p)
    \/ \E p \in QueryProcs : IngestLockStream(p)
    \/ \E p \in QueryProcs : IngestEntry(p)
    \/ \E p \in QueryProcs : IngestNoFlush(p)
    \/ \E p \in QueryProcs : IngestFlush(p)
    \/ \E p \in QueryProcs \cup {"timer"} : FlushBufferWrite(p)
    \/ \E p \in QueryProcs : IngestFlushDone(p)
    \/ \E p \in QueryProcs : IngestReturn(p)
    \/ Quiescent /\ TimerTick
    \/ FlushAllLock("timer")
    \/ FlushAllNext("timer")
    \/ FlushAllBufferDone("timer")
    \/ FlushAllReturn("timer")
    \/ QFindChunks
    \/ QExecute
    \/ QReturn
    \/ ClockTick

SpecQuery == Init /\ [][NextQuery]_vars

\* the store filled by one Ingest caller and the flush worker, swept by the
\* retention worker as time passes, with calls of Index.RemoveChunk
NextStore ==
    \/ \E p \in QueryProcs : IngestCall(p)
    \/ \E p \in QueryProcs : IngestSkipStream(p)
    \/ \E p \in QueryProcs : IngestLockStream(p)
    \/ \E p \in QueryProcs : IngestEntry(p)
    \/ \E p \in QueryProcs : IngestNoFlush(p)
    \/ \E p \in QueryProcs : IngestFlush(p)
    \/ \E p \in QueryProcs \cup {"timer"} : FlushBufferWrite(p)
    \/ \E p \in QueryProcs : IngestFlushDone(p)
    \/ \E p \in QueryProcs : IngestReturn(p)
    \/ TimerTick
    \/ FlushAllLock("timer")
    \/ FlushAllNext("timer")
    \/ FlushAllBufferDone("timer")
    \/ FlushAllReturn("timer")
    \/ SweepClockTick
    \/ CleanupOldChunks
    \/ RemoveChunkCall

SpecStore == Init /\ [][NextStore]_vars

\* the index filled by one Ingest caller and the flush worker, persisted and
\* loaded back between the requests
NextPersist ==
    \/ \E p \in QueryProcs : Quiescent /\ IngestCall(p)
    \/ \E p \in QueryProcs : IngestSkipStream(p)
    \/ \E p \in QueryProcs : IngestLockStream(p)
    \/ \E p \in QueryProcs : IngestEntry(p)
    \/ \E p \in QueryProcs : IngestNoFlush(p)
    \/ \E p \in QueryProcs : IngestFlush(p)
    \/ \E p \in QueryProcs \cup {"timer"} : FlushBufferWrite(p)
    \/ \E p \in QueryProcs : IngestFlushDone(p)
    \/ \E p \in QueryProcs : IngestReturn(p)
    \/ Quiescent /\ TimerTick
    \/ FlushAllLock("timer")
    \/ FlushAllNext("timer")
    \/ FlushAllBufferDone("timer")
    \/ FlushAllReturn("timer")
    \/ PersistLoadCall

SpecPersist == Init /\ [][NextPersist]_vars

\* the store filled by one Ingest caller and the flush worker, swept by the
\* retention worker and queried between the requests and the sweeps
NextSwept ==
    \/ \E p \in QueryProcs : Quiescent /\ IngestCall(p)
    \/ \E p \in QueryProcs : IngestSkipStream(p)
    \/ \E p \in QueryProcs : IngestLockStream(p)
    \/ \E p \in QueryProcs : IngestEntry(p)
    \/ \E p \in QueryProcs : IngestNoFlush(p)
    \/ \E p \in QueryProcs : IngestFlush(p)
    \/ \E p \in QueryProcs \cup {"timer"} : FlushBufferWrite(p)
    \/ \E p \in QueryProcs : IngestFlushDone(p)
    \/ \E p \in QueryProcs : IngestReturn(p)
    \/ Quiescent /\ TimerTick
    \/ FlushAllLock("timer")
    \/ FlushAllNext("timer")
    \/ FlushAllBufferDone("timer")
    \/ FlushAllReturn("timer")
    \/ Quiescent /\ SweepClockTick
    \/ Quiescent /\ CleanupOldChunks
    \/ QExecuteSwept
    \/ QReturn

SpecSwept == Init /\ [][NextSwept]_vars

\* calls of the functions of the labels primitive, of the parser and of Execute
\* on an empty store
NextCalls ==
    \/ CallHash
    \/ CallToPath
    \/ CallParseAdvancedQuery
    \/ CallExecute
    \/ CallBuildParse
    \/ CallMatch
    \/ CallMatchLabels
    \/ CallServeHTTP
    \/ CallReturn

SpecCalls == Init /\ [][NextCalls]_vars

\* the flush worker is a goroutine of its own and its ticker fires every five
\* seconds: it takes a step whenever one is possible
TimerSteps ==
    \/ TimerTick
    \/ TimerExit
    \/ FlushAllLock("timer")
    \/ FlushAllNext("timer")
    \/ FlushAllBufferDone("timer")
    \/ FlushAllReturn("timer")

\* an Ingest call that has started runs to its return
IngestSteps(p) ==
    \/ IngestSkipStream(p)
    \/ IngestLockStream(p)
    \/ IngestEntry(p)
    \/ IngestNoFlush(p)
    \/ IngestFlush(p)
    \/ IngestFlushDone(p)
    \/ IngestReturn(p)

\* the step FlushBufferWrite(p) by the positions of p: WriteChunk returns. It is
\* the only step of p from "write", possible whenever p is there
WriteStep(p) == pc[p] = "write" /\ pc' = [pc EXCEPT ![p] = "index"]

\* every goroutine that can take a step eventually takes one
FairSpec ==
    /\ Spec
    /\ WF_vars(TimerSteps) /\ WF_pc(WriteStep("timer"))
    /\ \A p \in IngestProcs : WF_vars(IngestSteps(p)) /\ WF_pc(WriteStep(p))

\* Run is a goroutine of its own: it takes a step whenever one is possible
HubSteps ==
    \/ HubRecvRegister
    \/ HubStoreRegister
    \/ HubRecvUnregister
    \/ HubApplyUnregister
    \/ HubRecvBroadcast
    \/ HubDeliver
    \/ HubEndRange

FairSpecHub == SpecHub /\ WF_vars(HubSteps)

\* ------------------------------------------------------------------------
\* Observations used by the properties
\* ------------------------------------------------------------------------
Range(seq) == {seq[i] : i \in 1..Len(seq)}

LogPaths == {path \in DOMAIN disk : path[3] = "log"}

MetaPaths == {path \in DOMAIN disk : path[3] = "meta"}

\* the entries the lines of a chunk file stand for
FileEntries(path) == [i \in 1..Len(disk[path]) |-> Unmarshal(disk[path][i])]

\* the .log file of a chunk id
LogPathOf(id) == CHOOSE path \in LogPaths : path[2] = id

\* the chunks the index advertises, with their files
IndexedLogPaths == {path \in LogPaths : path[2] \in DOMAIN chunkMeta}

\* entries held in the chunk files of indexed chunks
ChunkEntries == UNION {Range(FileEntries(path)) : path \in IndexedLogPaths}

BufferEntries == UNION {Range(buffers[h].entries) : h \in DOMAIN buffers}

\* number of buffer slots that hold entry e
InBuffers(e) ==
    Cardinality({<<h, i>> \in (DOMAIN buffers) \X (1..(MaxAccepted + 1)) :
                    i <= Len(buffers[h].entries) /\ buffers[h].entries[i] = e})

\* number of chunk file lines that hold entry e
InChunks(e) ==
    Cardinality({<<path, i>> \in LogPaths \X (1..(MaxAccepted + 1)) :
                    i <= Len(disk[path]) /\ FileEntries(path)[i] = e})

Flushing(p) == pc[p] \in {"write", "index"}

MinTs(entries) ==
    CHOOSE t \in {e.Timestamp : e \in Range(entries)} :
        \A e \in Range(entries) : t <= e.Timestamp

MaxTs(entries) ==
    CHOOSE t \in {e.Timestamp : e \in Range(entries)} :
        \A e \in Range(entries) : t >= e.Timestamp

\* ------------------------------------------------------------------------
\* Properties of the ingest pipeline
\* ------------------------------------------------------------------------

\* C1: when the chunk write of a flush has failed, the step that ends the flush
\* leaves the entries of that buffer in the buffer
C1_FailedFlushKeepsBuffer ==
    [][\A p \in Procs :
          (pc[p] = "index" /\ loc[p].wres.err)
            => buffers'[loc[p].cur].entries = buffers[loc[p].cur].entries]_vars

\* C2: two goroutines never flush at the same time, and with all writes
\* succeeding and the buffer mutex free every accepted entry is in exactly one
\* place: the buffer of its stream or one chunk file
C2_ExclusiveFlushOnePlace ==
    /\ \A p, q \in Procs : (p # q /\ Flushing(p)) => ~Flushing(q)
    /\ (bufferMu = NoOwner /\ hist.failed = 0) =>
          \A e \in hist.accepted :
              /\ InBuffers(e) + InChunks(e) = 1
              /\ InBuffers(e) = 1 =>
                    /\ Hash(e.Labels) \in DOMAIN buffers
                    /\ e \in Range(buffers[Hash(e.Labels)].entries)
              /\ InChunks(e) = 1 => e \in ChunkEntries

\* C2 witness: two Ingest calls are in progress, the mutex is free, one accepted
\* entry is buffered and another one is in a chunk
C2_Witness ==
    /\ bufferMu = NoOwner /\ hist.failed = 0
    /\ pc["i1"] = "stream" /\ pc["i2"] = "stream"
    /\ \E e1, e2 \in hist.accepted : InBuffers(e1) = 1 /\ InChunks(e2) = 1

\* C3: once Stop has returned and no Ingest call is in progress, the entries in
\* the chunks are the accepted entries minus those of the failed flushes
C3_StopPersistsAccepted ==
    (pc["stop"] = "done" /\ \A p \in IngestProcs : pc[p] = "idle")
        => ChunkEntries = hist.accepted \ hist.lost

\* C7: every entry of an indexed chunk carries the label set of the chunk, as
\* recorded in the index and in the sidecar
C7_ChunkEntriesCarryChunkLabels ==
    \A path \in IndexedLogPaths :
        \A e \in Range(FileEntries(path)) :
            /\ e.Labels = chunkMeta[path[2]].Labels
            /\ e.Labels = disk[<<path[1], path[2], "meta">>].Labels

\* C8: the index and the sidecar record the minimum and the maximum timestamp
\* of the chunk's entries, so start_time <= end_time
C8_ChunkTimesAreMinMax ==
    \A path \in IndexedLogPaths :
        LET meta == chunkMeta[path[2]]
            side == disk[<<path[1], path[2], "meta">>]
        IN /\ meta.StartTime = Unix(MinTs(FileEntries(path)))
           /\ meta.EndTime = Unix(MaxTs(FileEntries(path)))
           /\ side.StartTime = meta.StartTime /\ side.EndTime = meta.EndTime
           /\ meta.StartTime <= meta.EndTime

\* an Ingest caller is about to run one iteration of the loop over the entries
AtEntry(p) == pc[p] = "entry" /\ loc[p].ei <= Len(CurStream(p).entries)

\* C5: the publish of an entry never blocks the Ingest caller; on a full channel
\* the queued entries stay as they are, on a free one the entry is queued last;
\* either way the entry is appended to the buffer and counted as accepted
C5_BroadcastNeverBlocksNorDisturbs ==
    /\ [](\A p \in TailProcs : AtEntry(p) => ENABLED IngestEntry(p))
    /\ [][\A p \in TailProcs :
             (AtEntry(p) /\ loc'[p].ei # loc[p].ei) =>
                LET in == CurStream(p).entries[loc[p].ei]
                    new == buffers'[loc[p].cur].entries
                    e == new[Len(new)]
                IN /\ new = Append(buffers[loc[p].cur].entries, e)
                   /\ e.Line = in.line /\ e.Labels = CurStream(p).labels
                   /\ loc'[p].accepted = loc[p].accepted + 1
                   /\ ingestedLines' = ingestedLines + 1
                   /\ IF Len(broadcast) >= BroadcastCap
                      THEN broadcast' = broadcast
                      ELSE broadcast' = Append(broadcast, e)]_vars

\* C5 witness: an accepted entry was dropped by the full channel (entries
\* published before it are still queued, it is not) and sits in its buffer
C5_Witness ==
    \E e \in hist.accepted :
        /\ Len(broadcast) = BroadcastCap
        /\ \A i \in 1..Len(broadcast) : broadcast[i].n < e.n
        /\ InBuffers(e) = 1

\* ------------------------------------------------------------------------
\* Properties of the live-tail hub
\* ------------------------------------------------------------------------
RECURSIVE IsSubseq(_, _)
IsSubseq(s, t) ==
    IF s = << >> THEN TRUE
    ELSE IF t = << >> THEN FALSE
    ELSE IF Head(s) = Head(t) THEN IsSubseq(Tail(s), Tail(t))
    ELSE IsSubseq(s, Tail(t))

RECURSIVE LogFrames(_)
LogFrames(frames) ==
    IF frames = << >> THEN << >>
    ELSE (IF Head(frames).type = "log" THEN <<Head(frames).n>> ELSE << >>)
         \o LogFrames(Tail(frames))

\* the entries a subscriber received, in the order of their frames
Received(c) == LogFrames(conn[c].frames)

\* the entries that entered the channel, in the order Broadcast queued them
Enqueued == [i \in 1..Len(hist.enq) |-> hist.enq[i].n]

RECURSIVE Restrict(_, _)
Restrict(s, S) ==
    IF s = << >> THEN << >>
    ELSE (IF Head(s) \in S THEN <<Head(s)>> ELSE << >>) \o Restrict(Tail(s), S)

\* C4: while a subscriber whose write failed is still in the subscriber set,
\* the hub loop is able to take its next step (it goes on to the unregister
\* and to the later messages)
C4_HubGoesOnAfterWriteFailure ==
    \A c \in hist.writeFailed : c \in DOMAIN clients => ENABLED HubSteps

\* C6: what a subscriber received is a subsequence of the entries in the order
\* they were queued, and two subscribers see their common entries in the same order
C6_DeliveryOrder ==
    /\ \A c \in Conns : IsSubseq(Received(c), Enqueued)
    /\ \A c, d \in Conns :
          Restrict(Received(c), Range(Received(d))) = Restrict(Received(d), Range(Received(c)))

\* C6 witness: two subscribers have each received two entries
C6_Witness ==
    \A c \in Conns : Len(Received(c)) >= 2

\* ------------------------------------------------------------------------
\* Properties of the index lookup and of the query executor
\* ------------------------------------------------------------------------
\* the interval of a chunk and the window of a query, both in whole seconds,
\* have a second in common
Intersects(meta, startTime, endTime) ==
    Max({meta.StartTime, Unix(startTime)}) <= Min({meta.EndTime, Unix(endTime)})

\* every key of the query is a key of the labels, with an equal value
IsSuperset(labels, query) ==
    \A k \in DOMAIN query : k \in DOMAIN labels /\ labels[k] = query[k]

\* C9: FindChunks returns exactly the indexed chunks whose interval intersects
\* the window of the query and whose labels hold every key of the query labels
\* with an equal value; a key the chunk does not have never matches
C9_FindChunksExact ==
    found.called =>
        found.ids = {id \in DOMAIN chunkMeta :
                        /\ Intersects(chunkMeta[id], found.startTime, found.endTime)
                        /\ IsSuperset(chunkMeta[id].Labels, found.query)}

\* a label matcher of a selector, as the query language defines it
MatcherHolds(m, labels) ==
    LET present == m.name \in DOMAIN labels
    IN CASE m.op = MatchEqual -> present /\ labels[m.name] = m.value
         [] m.op = MatchNotEqual -> ~(present /\ labels[m.name] = m.value)
         [] m.op = MatchRegex -> present /\ MatchString(m.value, labels[m.name])
         [] OTHER -> ~(present /\ MatchString(m.value, labels[m.name]))

\* a line filter of a query, as the query language defines it
FilterHolds(f, line) ==
    CASE f.op = LineContains -> Contains(line, f.pattern)
      [] f.op = LineNotContains -> ~Contains(line, f.pattern)
      [] f.op = LineRegex -> MatchString(f.pattern, line)
      [] OTHER -> ~MatchString(f.pattern, line)

\* C10: every entry in the logs of an Execute result lies in the time window
\* of the call, satisfies every label matcher of the selector and satisfies
\* every line filter of the query
C10_ResultEntriesSatisfyQuery ==
    (result.called /\ result.err = ErrNone) =>
        \A i \in 1..Len(result.Logs) :
            LET log == result.Logs[i]
            IN /\ result.startTime <= log.Timestamp /\ log.Timestamp <= result.endTime
               /\ \A j \in 1..Len(result.query.matchers) :
                     MatcherHolds(result.query.matchers[j], log.Labels)
               /\ \A j \in 1..Len(result.query.filters) :
                     FilterHolds(result.query.filters[j], log.Message)

\* ------------------------------------------------------------------------
\* Properties of the store under retention and removal
\* ------------------------------------------------------------------------
\* the chunk file of an indexed chunk
ChunkFileOf(id) == <<ToPath(chunkMeta[id].Labels), id, "log">>

\* C11: every ChunkMeta in the index has its chunk file on disk, also after a
\* retention sweep has deleted files
C11_IndexedChunksHaveFiles ==
    \A id \in DOMAIN chunkMeta : ChunkFileOf(id) \in DOMAIN disk

\* the label keys of the chunks that are in the index
LiveKeys == UNION {DOMAIN chunkMeta[id].Labels : id \in DOMAIN chunkMeta}

\* the values the chunks in the index have for a key
LiveValues(k) ==
    {chunkMeta[id].Labels[k] : id \in {c \in DOMAIN chunkMeta : k \in DOMAIN chunkMeta[c].Labels}}

\* C12: the catalog of the index (GetAllLabels, GetLabelValues) is the union of
\* the labels of the chunks currently in the index, no more and no less
C12_CatalogIsUnionOfLiveLabels ==
    /\ GetAllLabels = LiveKeys
    /\ \A k \in labelKeys \cup DOMAIN labelValues \cup LiveKeys :
          GetLabelValues(k) = LiveValues(k)

\* ------------------------------------------------------------------------
\* Properties of Ingest: flush threshold, validation
\* ------------------------------------------------------------------------
\* C13: a buffer is flushed as soon as it holds buffer_size entries, so no
\* buffer and no chunk file ever holds more than buffer_size entries
C13_FlushAtBufferSize ==
    /\ \A h \in DOMAIN buffers : Len(buffers[h].entries) <= BufSize
    /\ \A path \in LogPaths : Len(disk[path]) <= BufSize

\* a label key made of letters, digits and "_" that does not start with a digit
WellFormedKey(key) ==
    /\ key # NoStr
    /\ ~IsDigit(key[1])
    /\ \A c \in Range(key) : IsLetter(c) \/ IsDigit(c) \/ c = "_"

\* a label value that is not empty and has no newline
WellFormedValue(value) == value # NoStr /\ "\n" \notin Range(value)

\* a stream the request contract accepts: labels and entries not empty, every
\* key and value well formed
StreamAccepted(stream) ==
    /\ DOMAIN stream.labels # {}
    /\ stream.entries # << >>
    /\ \A key \in DOMAIN stream.labels :
          WellFormedKey(key) /\ WellFormedValue(stream.labels[key])

\* the number of entries of the accepted streams among the first n of a request
RECURSIVE AcceptedCount(_, _)
AcceptedCount(req, n) ==
    IF n = 0 THEN 0
    ELSE AcceptedCount(req, n - 1)
         + (IF StreamAccepted(req[n]) THEN Len(req[n].entries) ELSE 0)

\* C14: a stream that fails validation is skipped without buffering, publishing
\* or counting anything, the streams after it are processed, and Ingest
\* returns the number of entries of the valid streams only
C14_InvalidStreamsSkipped ==
    /\ [](\A p \in IngestProcs :
            pc[p] = "stream" => loc[p].accepted = AcceptedCount(loc[p].req, loc[p].si - 1))
    /\ [](\A e \in hist.accepted : StreamAccepted(St(e.Labels, <<e>>)))
    /\ [][\A p \in IngestProcs :
             (/\ pc[p] = "stream" /\ loc[p].si <= Len(loc[p].req)
              /\ ~StreamAccepted(CurStream(p))
              /\ loc'[p] # loc[p])
             => /\ loc'[p] = [loc[p] EXCEPT !.si = @ + 1]
                /\ pc'[p] = "stream"
                /\ buffers' = buffers /\ broadcast' = broadcast
                /\ ingestedLines' = ingestedLines
                /\ hist'.accepted = hist.accepted]_vars

\* C14 witness: Ingest is about to return from a request in which a valid
\* stream came after an invalid one, with the entries of the valid streams counted
C14_Witness ==
    \E p \in IngestProcs :
        /\ pc[p] = "stream" /\ loc[p].si > Len(loc[p].req)
        /\ \E i, j \in 1..Len(loc[p].req) :
              i < j /\ ~StreamAccepted(loc[p].req[i]) /\ StreamAccepted(loc[p].req[j])
        /\ loc[p].accepted > 0
        /\ loc[p].accepted = AcceptedCount(loc[p].req, Len(loc[p].req))

\* ------------------------------------------------------------------------
\* Properties of the labels primitive
\* ------------------------------------------------------------------------
\* C15: two valid label sets have the same fingerprint iff they are equal
C15_FingerprintInjective ==
    call.fn = "Hash" => ((call.out[1] = call.out[2]) <=> (call.in[1] = call.in[2]))

\* C16: two different valid label sets never map to the same directory segment
C16_PathSegmentInjective ==
    call.fn = "ToPath" => (call.in[1] # call.in[2] => call.out[1] # call.out[2])

\* ------------------------------------------------------------------------
\* Properties of the order and of the limit of a query result
\* ------------------------------------------------------------------------
\* C17: the logs of a result without aggregation are sorted by timestamp
\* descending, entries of equal timestamp by id descending
C17_SortedByTimestampThenId ==
    (result.called /\ result.err = ErrNone /\ result.query.form # "sum") =>
        \A i, j \in 1..Len(result.Logs) :
            i < j =>
                \/ result.Logs[i].Timestamp > result.Logs[j].Timestamp
                \/ /\ result.Logs[i].Timestamp = result.Logs[j].Timestamp
                   /\ result.Logs[i].ID >= result.Logs[j].ID

\* the first n elements of a sequence, all of them when it has fewer
Prefix(seq, n) == SubSeq(seq, 1, Min({n, Len(seq)}))

\* C18: without aggregation and with limit > 0 the logs are the first limit
\* entries of the sorted matched entries; with limit <= 0, or with an
\* aggregation, they are all the sorted matched entries
C18_LimitTruncatesSorted ==
    (result.called /\ result.err = ErrNone) =>
        \E full \in Execute(QueryText(result.query), result.startTime, result.endTime, 0) :
            /\ full.err = ErrNone
            /\ Len(full.Logs) = result.Stats.MatchedLines
            /\ result.Logs = IF result.limit > 0 /\ result.query.form \notin {"sum", "count"}
                             THEN Prefix(full.Logs, result.limit)
                             ELSE full.Logs

\* C18 witness: a query without aggregation matched three entries and the
\* limit 1 left the first of them
C18_Witness ==
    /\ result.called /\ result.err = ErrNone
    /\ result.limit = 1 /\ result.query.form \notin {"sum", "count"}
    /\ result.Stats.MatchedLines = 3
    /\ Len(result.Logs) = 1

\* ------------------------------------------------------------------------
\* Properties of the parser
\* ------------------------------------------------------------------------
\* C19: for a query that is not well formed, parsing returns an error and
\* Execute returns the error instead of a result
C19_IllFormedQueryIsAnError ==
    (call.fn \in {"ParseAdvancedQuery", "Execute"} /\ call.in \in IllFormedQueries)
        => call.out.err # ErrNone

\* C20: ParseQuery of the string BuildQuery returns for a label set is that
\* label set
C20_ParseInvertsBuild ==
    call.fn = "ParseQuery" => (call.out.err = ErrNone /\ call.out.labels = call.in)

\* ------------------------------------------------------------------------
\* Properties of the chunk files
\* ------------------------------------------------------------------------
\* C21: reading back an indexed chunk returns the entries the buffer held at
\* the flush, in their order, and the entry count recorded for the chunk is the
\* number of lines of its file
C21_ReadBackWhatWasFlushed ==
    \A id \in DOMAIN chunkMeta :
        LET read == ReadChunk(chunkMeta[id].Labels, id)
        IN /\ ~read.err
           /\ read.entries = hist.batch[id]
           /\ chunkMeta[id].EntryCount = Len(disk[ChunkFileOf(id)])

\* ------------------------------------------------------------------------
\* Properties of the retention sweep
\* ------------------------------------------------------------------------
\* C22: after a retention sweep no file under the base path is older than the
\* horizon, and every directory below the base path that is left holds a file
\* or a directory, also when it held only directories emptied by the sweep
C22_SweepLeavesNoOldFileNoEmptyDir ==
    [][CleanupOldChunks =>
         /\ \A path \in DOMAIN disk' : modTime'[path] >= now' - RetentionTicks
         /\ \A d \in dirs' : HasEntries(d, DOMAIN disk', dirs')]_vars

\* ------------------------------------------------------------------------
\* Properties of the registration of chunks
\* ------------------------------------------------------------------------
\* the places of the label index that hold a chunk id
IndexPlaces(id) ==
    {pl \in (DOMAIN labelIndex) \X (1..(MaxAccepted + MaxFaults + 1)) :
        pl[2] <= Len(labelIndex[pl[1]]) /\ labelIndex[pl[1]][pl[2]] = id}

\* the chunk ids anywhere in the label index
IndexedIDs == UNION {Range(labelIndex[h]) : h \in DOMAIN labelIndex}

\* a flush that has left WriteChunk and has not yet passed the call of AddChunk
AfterWrite(p) == pc[p] = "index"

\* C23: the index gets a chunk only from a flush whose WriteChunk returned no
\* error, after the chunk file was written, exactly once for such a flush and
\* never for a flush whose write failed; no chunk id is held twice
C23_AddChunkOncePerSuccessfulWrite ==
    /\ [](\A id \in IndexedIDs \cup DOMAIN chunkMeta :
            /\ Cardinality(IndexPlaces(id)) = 1
            /\ id \in DOMAIN chunkMeta
            /\ id \in hist.flushed)
    /\ [](\A p \in Procs : AfterWrite(p) =>
            /\ loc[p].wres.chunkID \notin IndexedIDs \cup DOMAIN chunkMeta
            /\ ~loc[p].wres.err =>
                  <<ToPath(buffers[loc[p].cur].labels), loc[p].wres.chunkID, "log">>
                      \in DOMAIN disk)
    /\ [][\A p \in Procs : AfterWrite(p) /\ ~AfterWrite(p)' =>
            IF loc[p].wres.err
            THEN IndexedIDs' = IndexedIDs /\ chunkMeta' = chunkMeta
            ELSE /\ IndexedIDs' = IndexedIDs \cup {loc[p].wres.chunkID}
                 /\ DOMAIN chunkMeta' = DOMAIN chunkMeta \cup {loc[p].wres.chunkID}]_vars
    /\ [][(\A p \in Procs : ~(AfterWrite(p) /\ ~AfterWrite(p)')) =>
            IndexedIDs' = IndexedIDs /\ DOMAIN chunkMeta' = DOMAIN chunkMeta]_vars

\* a chunk is registered and another flush has failed
C23_Witness ==
    /\ IndexedIDs # {}
    /\ hist.failed > 0
    /\ \E p \in Procs : AfterWrite(p) /\ ~loc[p].wres.err

\* ------------------------------------------------------------------------
\* Properties of the filters of the hub
\* ------------------------------------------------------------------------
\* the hub decides in this step whether the drained entry goes to subscriber c
Served(c) == hub.pc = "range" /\ c \in hub.todo /\ c \notin hub'.todo

\* the step writes the log frame of the drained entry to subscriber c
Delivered(c) ==
    conn'[c].frames = Append(conn[c].frames, [type |-> "log", n |-> hub.entry.n])

\* C24: once the hub has answered a filter message of a subscriber with
\* filter_updated, an entry drained afterwards is delivered to the subscriber
\* if and only if it matches the filter of that message
C24_ConfirmedFilterDecidesDelivery ==
    [][\A c \in Conns :
          (/\ Served(c)
           /\ c \in DOMAIN hist.confirmed
           /\ conn[c].hpc # "confirm"
           /\ ~WriteFails(c))
          => (Delivered(c) <=> matchesFilter(hub.entry.Labels, hist.confirmed[c]))]_vars

\* C25: a drained entry is delivered to a subscriber if and only if the labels
\* of the entry hold every key of the subscriber's filter with an equal value,
\* also for a filter value that is the empty string
C25_DeliveredIffSuperset ==
    [][\A c \in Conns :
          (Served(c) /\ ~WriteFails(c))
          => (Delivered(c) <=> IsSuperset(hub.entry.Labels, clients[c]))]_vars

\* ------------------------------------------------------------------------
\* Properties of the aggregations
\* ------------------------------------------------------------------------
\* the matched entries of a result whose timestamp lies in [t, t + d)
InBucket(logs, t, d) ==
    {j \in 1..Len(logs) : logs[j].Timestamp >= t /\ logs[j].Timestamp < t + d}

\* C26: for count_over_time(selector[d]) the scalar is the number of matched
\* entries, and the i-th point of the series is the number of matched entries
\* with a timestamp in the i-th bucket [t, t + d) counted from the start
C26_CountOverTimeBuckets ==
    (result.called /\ result.err = ErrNone /\ result.query.form = "count") =>
        LET d == CountSeconds * TicksPerSecond
        IN /\ result.Aggregation.Value = Len(result.Logs)
           /\ result.Aggregation.Value = result.Stats.MatchedLines
           /\ \A i \in 1..Len(result.Aggregation.Series) :
                 result.Aggregation.Series[i].Value =
                     Cardinality(InBucket(result.Logs, result.startTime + (i - 1) * d, d))

\* ------------------------------------------------------------------------
\* Progress of the flush worker
\* ------------------------------------------------------------------------
\* the n-th accepted entry
Accepted(n) == \E e \in hist.accepted : e.n = n

\* the n-th accepted entry is in the file of a chunk the index holds
Registered(n) == \E e \in ChunkEntries : e.n = n

\* C27: while the flush worker runs and no chunk write fails, every accepted
\* entry is eventually in a chunk registered in the index, also when its
\* buffer never reaches the buffer size
C27_AcceptedEventuallyRegistered ==
    \A n \in 1..MaxAccepted :
        Accepted(n) ~> (Registered(n) \/ hist.failed > 0 \/ stopChan)

\* an entry was flushed by the timer from a buffer below the buffer size, with
\* no write failed and the worker running
C27_Witness ==
    /\ hist.failed = 0 /\ ~stopChan
    /\ \E path \in IndexedLogPaths : Len(disk[path]) < BufSize
    /\ \E n \in 1..MaxAccepted : Accepted(n) /\ Registered(n)

\* ------------------------------------------------------------------------
\* Properties of queries over a swept store
\* ------------------------------------------------------------------------
\* the chunks selected for the query of the result
Selected ==
    FindChunks(simpleLabels(ParseAdvancedQuery(QueryText(result.query)).LabelMatchers),
               result.startTime, result.endTime) \cap DOMAIN chunkMeta

\* the file of the chunk is there and every line of it fits the scanner
Readable(id) ==
    /\ ChunkFileOf(id) \in DOMAIN disk
    /\ \A i \in 1..Len(disk[ChunkFileOf(id)]) :
          JsonLen(disk[ChunkFileOf(id)][i]) <= MaxScanTokenSize

\* the entries of the readable selected chunks that lie in the window of the
\* result and satisfy its matchers, by their sequence numbers
ExpectedLogs ==
    {e.n : e \in {x \in UNION {Range(FileEntries(ChunkFileOf(id))) :
                                  id \in {c \in Selected : Readable(c)}} :
                     /\ result.startTime <= x.Timestamp /\ x.Timestamp <= result.endTime
                     /\ \A j \in 1..Len(result.query.matchers) :
                           MatcherHolds(result.query.matchers[j], x.Labels)}}

\* C28: when the read of a selected chunk fails, Execute returns no error and
\* the matching entries of the other selected chunks; when every selected chunk
\* was swept it returns no logs
C28_FailedChunksAreSkipped ==
    result.called =>
        /\ result.err = ErrNone
        /\ {result.Logs[i].n : i \in 1..Len(result.Logs)} = ExpectedLogs
        /\ Len(result.Logs) = Cardinality(ExpectedLogs)

\* a selected chunk was swept and the entries of another chunk are returned
C28_Witness ==
    /\ result.called
    /\ \E id \in Selected : ChunkFileOf(id) \notin DOMAIN disk
    /\ Len(result.Logs) > 0

\* ------------------------------------------------------------------------
\* Properties of POST /ingest
\* ------------------------------------------------------------------------
\* the body is not valid JSON or its request fails validation
Rejectable(body) ==
    \/ ~ValidJSON(body)
    \/ body[1].kind # "object"
    \/ ~ValidateIngestRequest(body[1].streams)

\* the handler has taken a body from goroutine p in this step
Posted(p) ==
    /\ pc[p] = "idle"
    /\ hist'.body[p] # hist.body[p] \/ hist'.status[p] # hist.status[p]

\* C29: a POST /ingest whose body is not valid JSON or whose request fails
\* validation is answered with 400, and no entry of it is buffered, broadcast,
\* counted or written
C29_BadRequestIngestsNothing ==
    /\ [](\A p \in IngestProcs :
            (hist.body[p] # NoBody /\ Rejectable(hist.body[p]))
                => hist.status[p] = StatusBadRequest)
    /\ [][\A p \in IngestProcs :
             (Posted(p) /\ Rejectable(hist'.body[p]))
                 => /\ pc' = pc /\ buffers' = buffers /\ broadcast' = broadcast
                    /\ ingestedLines' = ingestedLines /\ disk' = disk
                    /\ hist'.accepted = hist.accepted]_vars

\* ------------------------------------------------------------------------
\* Properties of the entry ids
\* ------------------------------------------------------------------------
\* C30: two different entries accepted by Ingest never have the same id, also
\* when they were appended at the same clock reading
C30_AcceptedIdsDiffer ==
    \A e1, e2 \in hist.accepted : e1.n # e2.n => e1.ID # e2.ID

\* ------------------------------------------------------------------------
\* Properties of the chunk ids
\* ------------------------------------------------------------------------
\* C31: no two calls of WriteChunk, successful or failing, from whatever
\* goroutine, obtain the same chunk id, and the sequence part of the id
\* strictly increases from call to call
C31_ChunkIdsNeverReused ==
    \A i, j \in 1..Len(hist.ids) :
        i < j => hist.ids[i] # hist.ids[j] /\ hist.ids[i][2] < hist.ids[j][2]

\* C31 witness: a failed call of WriteChunk and a later call, each with its id
C31_Witness ==
    /\ Len(hist.ids) >= 2
    /\ \E p \in Procs : pc[p] = "index" /\ ~loc[p].wres.err
    /\ hist.failed > 0

\* ------------------------------------------------------------------------
\* Properties of the label matchers
\* ------------------------------------------------------------------------
\* the label of the call is present with exactly the value of the call
PresentWithValue ==
    call.in[1] \in DOMAIN call.in[3] /\ call.in[3][call.in[1]] = call.in[2]

\* C32: on every label map = holds iff the label is present with exactly the
\* value, != is the negation of =, !~ is the negation of =~, the negative
\* operators hold when the label is absent, and the labels a !~ selector
\* matches are exactly those the =~ selector with the same pattern does not
C32_NegativeOperatorsNegate ==
    /\ call.fn = "Match" =>
          /\ call.out[MatchEqual] <=> PresentWithValue
          /\ call.out[MatchNotEqual] <=> ~call.out[MatchEqual]
          /\ call.out[MatchNotRegex] <=> ~call.out[MatchRegex]
          /\ call.in[1] \notin DOMAIN call.in[3] =>
                call.out[MatchNotEqual] /\ call.out[MatchNotRegex]
    /\ call.fn = "MatchLabels" =>
          /\ call.out[MatchEqual] <=> PresentWithValue
          /\ call.out[MatchNotEqual] <=> ~call.out[MatchEqual]
          /\ call.out[MatchNotRegex] <=> ~call.out[MatchRegex]

\* ------------------------------------------------------------------------
\* Properties of the empty query
\* ------------------------------------------------------------------------
\* the empty query and the empty selector
EmptyQueries == {Q("empty", << >>, << >>), Q("selector", << >>, << >>)}

\* the recorded interval of the chunk, in whole seconds, meets the window
InRange(meta, startTime, endTime) ==
    meta.StartTime <= Unix(endTime) /\ meta.EndTime >= Unix(startTime)

\* the entries in the window of the result, of the readable chunks of every
\* stream whose recorded interval meets the window, by their sequence numbers
EveryStreamLogs ==
    {e.n : e \in {x \in UNION {Range(FileEntries(ChunkFileOf(id))) :
                                  id \in {c \in DOMAIN chunkMeta :
                                            /\ Readable(c)
                                            /\ InRange(chunkMeta[c], result.startTime,
                                                       result.endTime)}} :
                     result.startTime <= x.Timestamp /\ x.Timestamp <= result.endTime}}

C34_LoadedIndexAnswersAlike ==
    [][hist'.loads # hist.loads =>
          /\ \A q \in FindQueries, w \in Windows :
                FindChunks(q, w[1], w[2])' = FindChunks(q, w[1], w[2])
          /\ DOMAIN chunkMeta' = DOMAIN chunkMeta
          /\ \A id \in DOMAIN chunkMeta : GetChunkMeta(id)' = GetChunkMeta(id)
          /\ GetAllLabels' = GetAllLabels
          /\ \A k \in {KeyA, KeyB} : GetLabelValues(k)' = GetLabelValues(k)
          /\ Stats' = Stats]_vars

\* ------------------------------------------------------------------------
\* Properties of the API key check
\* ------------------------------------------------------------------------
\* the request carries the configured key in X-API-Key or is the upgrade
\* handshake of the live tail
Authorized(cfg, r) ==
    \/ r.XAPIKey = cfg.APIKey
    \/ r.Path = "/stream" /\ r.Method = "GET" /\ r.Upgrade = "websocket"

\* C35: with an API key configured a request reaches its handler only if it
\* carries the key in X-API-Key or is the upgrade handshake of /stream, and
\* every other request is answered 401
C35_KeyOrHandshakeOrUnauthorized ==
    (call.fn = "ServeHTTP" /\ call.cfg.Enabled) =>
        /\ call.out.reached => Authorized(call.cfg, call.in)
        /\ ~Authorized(call.cfg, call.in) => call.out.status = StatusUnauthorized

\* ------------------------------------------------------------------------
\* Completeness of a query
\* ------------------------------------------------------------------------
\* the entry lies in the window of the result and satisfies its matchers and
\* its line filters
Wanted(x) ==
    /\ result.startTime <= x.Timestamp /\ x.Timestamp <= result.endTime
    /\ \A j \in 1..Len(result.query.matchers) :
          MatcherHolds(result.query.matchers[j], x.Labels)
    /\ \A j \in 1..Len(result.query.filters) :
          FilterHolds(result.query.filters[j], x.Line)

\* C36: a query without aggregation and without limit returns every entry
\* stored in a chunk of the index that lies in the window and satisfies the
\* matchers and the line filters, whatever the order of the timestamps in the
\* chunk
C36_EveryStoredMatchIsReturned ==
    (/\ result.called /\ result.err = ErrNone /\ result.limit = 0
     /\ result.query.form \in {"empty", "selector"}) =>
        \A id \in DOMAIN chunkMeta :
            \A x \in Range(FileEntries(ChunkFileOf(id))) :
                Wanted(x) => \E i \in 1..Len(result.Logs) : result.Logs[i].n = x.n

\* ------------------------------------------------------------------------
\* Writers of a subscriber's connection
\* ------------------------------------------------------------------------
\* Run, broadcast case, one client of the range up to the call of
\* conn.WriteMessage: a client whose filter does not match is passed over
HubWriteBegin ==
    /\ hub.pc = "range"
    /\ \E c \in hub.todo :
          IF matchesFilter(hub.entry.Labels, clients[c])
          THEN hub' = [hub EXCEPT !.pc = "write", !.who = c]
          ELSE hub' = [hub EXCEPT !.todo = @ \ {c}]
    /\ UNCHANGED <<now, ingestVars, storeVars, broadcast, clients, hubMu, conn, queryVars,
                   hist>>

\* Run, broadcast case: conn.WriteMessage returns; on a write error the loop
\* sends the connection on h.unregister
HubWriteEnd ==
    /\ hub.pc = "write"
    /\ \E c \in {hub.who} :
          /\ conn' = WriteMessage(c, [type |-> "log", n |-> hub.entry.n])
          /\ hub' = [hub EXCEPT !.todo = @ \ {c},
                                !.pc = IF WriteFails(c) THEN "unregister_send" ELSE "range",
                                !.who = IF WriteFails(c) THEN c ELSE NoConn]
          /\ hist' = [hist EXCEPT !.writeFailed = IF WriteFails(c) THEN @ \cup {c} ELSE @]
    /\ UNCHANGED <<now, ingestVars, storeVars, broadcast, clients, hubMu, queryVars>>

\* HandleStream after the register send: the handler enters
\* conn.WriteMessage with the welcome frame
WelcomeBegin(c) ==
    /\ conn[c].hpc = "welcome"
    /\ conn' = [conn EXCEPT ![c].hpc = "welcome_write"]
    /\ UNCHANGED <<now, ingestVars, storeVars, broadcast, clients, hubMu, hub, queryVars, hist>>

\* HandleStream: the write of the welcome frame returns, the reader goroutine
\* starts
WelcomeEnd(c) ==
    /\ conn[c].hpc = "welcome_write"
    /\ conn' = [WriteMessage(c, [type |-> "connected", n |-> 0])
                  EXCEPT ![c].hpc = "read", ![c].filter = NoLabels]
    /\ UNCHANGED <<now, ingestVars, storeVars, broadcast, clients, hubMu, hub, queryVars, hist>>

\* reader goroutine: h.hub.mu is released, the goroutine enters
\* conn.WriteMessage with the filter_updated frame
ConfirmBegin(c) ==
    /\ conn[c].hpc = "confirm"
    /\ conn' = [conn EXCEPT ![c].hpc = "confirm_write"]
    /\ UNCHANGED <<now, ingestVars, storeVars, broadcast, clients, hubMu, hub, queryVars, hist>>

\* reader goroutine: the write of the filter_updated frame returns
ConfirmEnd(c) ==
    /\ conn[c].hpc = "confirm_write"
    /\ conn' = [WriteMessage(c, [type |-> "filter_updated", n |-> 0])
                  EXCEPT ![c].hpc = "read", ![c].filter = NoLabels]
    /\ hist' = [hist EXCEPT !.confirmed = (c :> conn[c].filter) @@ @]
    /\ UNCHANGED <<now, ingestVars, storeVars, broadcast, clients, hubMu, hub, queryVars>>

\* the hub and the subscribers with every call of conn.WriteMessage taking
\* time: other goroutines run between its entry and its return
NextWrite ==
    \/ Publish
    \/ \E c \in Conns : Connect(c)
    \/ HubRecvRegister
    \/ HubStoreRegister
    \/ HubRecvUnregister
    \/ HubApplyUnregister
    \/ HubRecvBroadcast
    \/ HubWriteBegin
    \/ HubWriteEnd
    \/ HubEndRange
    \/ \E c \in Conns : WelcomeBegin(c)
    \/ \E c \in Conns : WelcomeEnd(c)
    \/ \E c \in Conns : ReaderFilter(c)
    \/ \E c \in Conns : ConfirmBegin(c)
    \/ \E c \in Conns : ConfirmEnd(c)
    \/ \E c \in Conns : ReaderError(c)
    \/ \E c \in Conns : ConnBreak(c)

SpecWrite == Init /\ [][NextWrite]_vars

\* the goroutines inside conn.WriteMessage on the connection
Writers(c) ==
    (IF hub.pc = "write" /\ hub.who = c THEN {"hub"} ELSE {})
      \cup (IF conn[c].hpc = "welcome_write" THEN {"handler"} ELSE {})
      \cup (IF conn[c].hpc = "confirm_write" THEN {"reader"} ELSE {})

\* C37: at any time at most one goroutine is inside conn.WriteMessage on a
\* given connection: the log frames of the hub loop and the connected and
\* filter_updated frames of the handler and its reader goroutine never overlap
C37_OneWriterPerConnection ==
    \A c \in Conns : Cardinality(Writers(c)) <= 1

\* ------------------------------------------------------------------------
\* The series and the scalar of count_over_time
\* ------------------------------------------------------------------------
\* the sum of the values of the points of a series
SeriesTotal(series) ==
    SumOver(1..Len(series), [i \in 1..Len(series) |-> series[i].Value])

\* C38: for count_over_time over a window with start before end, the values
\* of the buckets of the series add up to the scalar value, whatever the
\* timestamps of the matched entries between start and end, both included
C38_BucketsAddUpToScalar ==
    (/\ result.called /\ result.err = ErrNone /\ result.query.form = "count"
     /\ result.startTime < result.endTime) =>
        SeriesTotal(result.Aggregation.Series) = result.Aggregation.Value

====
